---- MODULE Spec2Model ----
(***************************************************************************)
(* Model of the multiemu machine execution engine: the schedule            *)
(* precomputed by Scheduler::new, the Scheduler::run loop, the pacing      *)
(* hooks too_slow / too_fast, and Machine snapshots.                       *)
(*                                                                         *)
(* Rationals (num::rational::Ratio<u64>) are pairs <<numer, denom>> in     *)
(* lowest terms.  std::time::Duration is a record [secs, nanos].  f32      *)
(* values are records [m, x] standing for m * 2^x with 2^23 <= m < 2^24    *)
(* (or m = 0), rounded to nearest, ties to even, as the hardware does.     *)
(***************************************************************************)
EXTENDS Integers, Naturals, Sequences, FiniteSets, TLC

\* ------------------------------------------------------------------ bounds
MaxComponents == 3
MaxNumer == 5
MaxDenom == 2
MaxHookCalls == 2
MaxRunIters == 3
MaxPacedComponents == 2
MaxWrites == 1
MaxBuilt == 3

\* ------------------------------------------------------- program constants
SeedMillis == 16
NudgeNanos == 500
NANOS_PER_SEC == 1000000000
MANT_BITS == 23
CHUNK_SIZE == 4096
U16_MAX == 65535
U8_MAX == 255

\* ------------------------------------------------------ integer arithmetic
Pow2(k) == 2 ^ k

RECURSIVE Gcd(_, _)
Gcd(a, b) == IF b = 0 THEN a ELSE Gcd(b, a % b)

\* num::integer::lcm
Lcm(a, b) == IF a = 0 /\ b = 0 THEN 0 ELSE a * (b \div Gcd(a, b))

\* Ratio::new: reduce to lowest terms
RatioNew(n, d) == <<n \div Gcd(n, d), d \div Gcd(n, d)>>

\* -------------------------------------------------- the component store
NotSchedulable == <<0, 0>>

Freqs == {f \in (1..MaxNumer) \X (1..MaxDenom) : Gcd(f[1], f[2]) = 1}

\* a machine whose only schedulable component runs at 25 Hz
FilmStore == [i \in {0} |-> <<25, 1>>]

\* ids of the components with a Schedulable capability (component_infos)
SchedulableIds(st) == {i \in DOMAIN st : st[i] # NotSchedulable}

RECURSIVE FoldLcm(_, _, _)
FoldLcm(f, S, acc) ==
    IF S = {} THEN acc
    ELSE LET i == CHOOSE j \in S : TRUE
         IN FoldLcm(f, S \ {i}, Lcm(acc, f[i]))

\* LCM of the denominators of the reciprocal frequencies
common_denominator(st) ==
    FoldLcm([i \in SchedulableIds(st) |-> st[i][1]], SchedulableIds(st), 1)

adjusted_numerators(st) ==
    LET cd == common_denominator(st)
    IN [i \in SchedulableIds(st) |-> st[i][1] * (cd \div st[i][2])]

common_multiple(st) ==
    LET adj == adjusted_numerators(st)
        S == SchedulableIds(st)
    IN IF S = {} THEN 1
       ELSE LET i == CHOOSE j \in S : TRUE
            IN FoldLcm(adj, S \ {i}, adj[i])

\* the division common_multiple / numerator panics on a zero numerator
RatiosDivideByZero(st) == \E i \in SchedulableIds(st) : adjusted_numerators(st)[i] = 0

\* tick_rate of every component
ratios(st) ==
    LET cm == common_multiple(st)
        adj == adjusted_numerators(st)
    IN [i \in SchedulableIds(st) |-> cm \div adj[i]]

\* ----------------------------------------------------------- the schedule
\* RangeMap<u64, Vec<ComponentId>>: slices [start, end) in increasing order.
\* Scheduler::new inserts every range at or after the end of the previous
\* one, so an insert either appends or is coalesced with the last slice.
EmptyRange(start, end) == start >= end

\* an insert that never coalesces adjacent ranges of equal value
RangeMapInsertNoCoalesce(sched, start, end, ids) ==
    Append(sched, [start |-> start, end |-> end, ids |-> ids])

RangeMapInsert(sched, start, end, ids) ==
    IF Len(sched) > 0 /\ sched[Len(sched)].end = start /\ sched[Len(sched)].ids = ids
    THEN [sched EXCEPT ![Len(sched)].end = end]
    ELSE Append(sched, [start |-> start, end |-> end, ids |-> ids])

\* Vec::sort_by_key is stable: insertion keeps the iteration order of equal keys
RECURSIVE SortedInsert(_, _)
SortedInsert(s, e) ==
    IF s = <<>> THEN <<e>>
    ELSE IF e.ind < Head(s).ind THEN <<e>> \o s
    ELSE <<Head(s)>> \o SortedInsert(Tail(s), e)

RECURSIVE SortedByKey(_)
SortedByKey(s) ==
    IF s = <<>> THEN <<>>
    ELSE SortedInsert(SortedByKey(SubSeq(s, 1, Len(s) - 1)), s[Len(s)])

\* to_run with the position in the iteration in place of the component id
to_run_by_position(rates, order, tick) ==
    SortedByKey([k \in 1..Len(order) |->
        [id |-> k - 1, ind |-> tick % rates[order[k]], rate |-> rates[order[k]]]])

\* (component_id, run_indication, tick_rate) in hash-map iteration order, sorted
to_run(rates, order, tick) ==
    SortedByKey([k \in 1..Len(order) |->
        [id |-> order[k], ind |-> tick % rates[order[k]], rate |-> rates[order[k]]]])

RECURSIVE DueIds(_)
DueIds(tr) ==
    IF tr = <<>> THEN <<>>
    ELSE IF Head(tr).ind = 0 THEN <<Head(tr).id>> \o DueIds(Tail(tr))
    ELSE DueIds(Tail(tr))

batch_size(tr) == tr[2].rate - tr[2].ind

normalized_batch_size(tr) == batch_size(tr) \div tr[1].rate

\* the while loop of Scheduler::new from current_tick on
RECURSIVE FillSchedule(_, _, _, _, _)
FillSchedule(rates, order, cd, tick, sched) ==
    IF ~(tick < cd) THEN [panic |-> "none", schedule |-> sched]
    ELSE LET tr == to_run(rates, order, tick)
             due == DueIds(tr)
         IN IF Len(tr) = 1
            THEN IF EmptyRange(tick, tick + tr[1].rate)
                 THEN [panic |-> "empty range", schedule |-> sched]
                 ELSE FillSchedule(rates, order, cd, tick + tr[1].rate,
                          RangeMapInsert(sched, tick, tick + tr[1].rate, <<tr[1].id>>))
            ELSE IF Len(due) = 0
            THEN FillSchedule(rates, order, cd, tick + 1, sched)
            ELSE IF Len(due) = 1
            THEN IF EmptyRange(tick, tick + normalized_batch_size(tr))
                 THEN [panic |-> "empty range", schedule |-> sched]
                 ELSE FillSchedule(rates, order, cd, tick + batch_size(tr),
                          RangeMapInsert(sched, tick, tick + normalized_batch_size(tr),
                                         <<tr[1].id>>))
            ELSE FillSchedule(rates, order, cd, tick + 1,
                     RangeMapInsert(sched, tick, tick + 1, due))

\* the ticks at which the while loop of Scheduler::new takes the "full
\* efficient batching" arm, from current_tick on
RECURSIVE BatchTicks(_, _, _, _)
BatchTicks(rates, order, cd, tick) ==
    IF ~(tick < cd) THEN {}
    ELSE LET tr == to_run(rates, order, tick)
             due == Len(DueIds(tr))
         IN IF Len(tr) = 1
            THEN IF EmptyRange(tick, tick + tr[1].rate) THEN {}
                 ELSE BatchTicks(rates, order, cd, tick + tr[1].rate)
            ELSE IF due = 1
            THEN IF EmptyRange(tick, tick + normalized_batch_size(tr)) THEN {tick}
                 ELSE {tick} \cup BatchTicks(rates, order, cd, tick + batch_size(tr))
            ELSE BatchTicks(rates, order, cd, tick + 1)

\* Scheduler::new for a store and an iteration order of the ratios hash map
SchedulerNew(st, order) ==
    IF RatiosDivideByZero(st) THEN [panic |-> "divide by zero", schedule |-> <<>>]
    ELSE FillSchedule(ratios(st), order, common_denominator(st), 0, <<>>)

\* tick_real_time = Ratio::new(common_multiple, common_denominator).recip()
TickRealTime(st) ==
    LET r == RatioNew(common_multiple(st), common_denominator(st))
    IN <<r[2], r[1]>>

\* ------------------------------------------------------------------- f32
F32Zero == [m |-> 0, x |-> 0]

\* (q + r/den) * 2^x rounded to a 24-bit significand, nearest, ties to even;
\* small significands are scaled up six binary digits at a time (den < 2^24)
RECURSIVE F32Round(_, _, _, _)
F32Round(q, r, den, x) ==
    IF q = 0 /\ r = 0 THEN F32Zero
    ELSE IF q < Pow2(MANT_BITS - 6)
    THEN F32Round(64 * q + ((64 * r) \div den), (64 * r) % den, den, x - 6)
    ELSE IF q < Pow2(MANT_BITS)
    THEN F32Round(2 * q + (IF 2 * r >= den THEN 1 ELSE 0), (2 * r) % den, den, x - 1)
    ELSE IF q >= Pow2(MANT_BITS + 1)
    THEN F32Round(q \div 2, (q % 2) * den + r, 2 * den, x + 1)
    ELSE LET up == 2 * r > den \/ (2 * r = den /\ q % 2 = 1)
             m == IF up THEN q + 1 ELSE q
         IN IF m = Pow2(MANT_BITS + 1) THEN [m |-> Pow2(MANT_BITS), x |-> x + 1]
            ELSE [m |-> m, x |-> x]

\* Ratio::to_f32 (through to_f64; the double rounding is invisible for
\* denominators below 2^28)
RatioToF32(r) == F32Round(r[1] \div r[2], r[1] % r[2], r[2], 0)

\* `n as f32` for an unsigned integer below 2^31
UIntToF32(n) == F32Round(n, 0, 1, 0)

\* (2^64 - d) as f32 for 0 < d < 2^39: the result of a wrapped subtraction
Wrapped64ToF32 == [m |-> Pow2(MANT_BITS), x |-> 64 - MANT_BITS]

RECURSIVE OddPart(_)
OddPart(n) ==
    IF n % 64 = 0 /\ n > 0 THEN OddPart(n \div 64)
    ELSE IF n % 2 = 0 /\ n > 0 THEN OddPart(n \div 2) ELSE n

RECURSIVE TrailingZeros(_)
TrailingZeros(n) ==
    IF n % 64 = 0 /\ n > 0 THEN 6 + TrailingZeros(n \div 64)
    ELSE IF n % 2 = 0 /\ n > 0 THEN 1 + TrailingZeros(n \div 2) ELSE 0

\* a * b for an integer-valued a whose significand has an odd part below 2^18;
\* the product is formed in two halves of b's significand
F32Mul(a, b) ==
    IF a.m = 0 \/ b.m = 0 THEN F32Zero
    ELSE LET o == OddPart(a.m)
             hi == o * (b.m \div 4096)
             lo == o * (b.m % 4096)
         IN F32Round(hi + (lo \div 4096), lo % 4096, 4096,
                     a.x + TrailingZeros(a.m) + b.x + 12)

\* a / b
F32Div(a, b) ==
    IF a.m = 0 THEN F32Zero
    ELSE F32Round(a.m \div b.m, a.m % b.m, b.m, a.x - b.x)

\* a + b for a >= b >= 0
F32Add(a, b) ==
    IF a.m = 0 THEN b
    ELSE IF b.m = 0 \/ a.x - b.x > MANT_BITS + 1 THEN a
    ELSE F32Round(a.m + (b.m \div Pow2(a.x - b.x)), b.m % Pow2(a.x - b.x),
                  Pow2(a.x - b.x), a.x)

\* a < b for non-negative values
F32Lt(a, b) ==
    IF b.m = 0 THEN FALSE
    ELSE IF a.m = 0 THEN TRUE
    ELSE a.x < b.x \/ (a.x = b.x /\ a.m < b.m)

\* -------------------------------------------------------------- Duration
Dur(secs, nanos) == [secs |-> secs, nanos |-> nanos]

DurFromMillis(ms) == Dur(ms \div 1000, (ms % 1000) * 1000000)

DurFromNanos(ns) == Dur(ns \div NANOS_PER_SEC, ns % NANOS_PER_SEC)

DurLt(a, b) == a.secs < b.secs \/ (a.secs = b.secs /\ a.nanos < b.nanos)

DurMax(a, b) == IF DurLt(a, b) THEN b ELSE a

DurMin(a, b) == IF DurLt(b, a) THEN b ELSE a

DurSaturatingSub(a, b) ==
    IF DurLt(a, b) THEN Dur(0, 0)
    ELSE IF a.nanos >= b.nanos THEN Dur(a.secs - b.secs, a.nanos - b.nanos)
    ELSE Dur(a.secs - b.secs - 1, a.nanos + NANOS_PER_SEC - b.nanos)

DurSaturatingAdd(a, b) ==
    IF a.nanos + b.nanos >= NANOS_PER_SEC
    THEN Dur(a.secs + b.secs + 1, a.nanos + b.nanos - NANOS_PER_SEC)
    ELSE Dur(a.secs + b.secs, a.nanos + b.nanos)

\* n digits in the given base of r/den (r < den): <<digits as a number, remainder>>
RECURSIVE LongDiv(_, _, _, _)
LongDiv(r, den, base, n) ==
    IF n = 0 THEN <<0, r>>
    ELSE LET rest == LongDiv((r * base) % den, den, base, n - 1)
         IN <<((r * base) \div den) * (base ^ (n - 1)) + rest[1], rest[2]>>

\* Duration::from_secs_f32: whole seconds, then the fraction times 10^9
\* rounded to the nearest nanosecond, ties to even (10^9 / 2^E = 5^9 / 2^(E-9))
DurFromSecsF32(f) ==
    IF f.m = 0 THEN Dur(0, 0)
    ELSE IF f.x >= 0 THEN Dur(f.m * Pow2(f.x), 0)
    ELSE LET E == 0 - f.x
             secs == IF E > MANT_BITS + 1 THEN 0 ELSE f.m \div Pow2(E)
             frac == IF E > MANT_BITS + 1 THEN f.m ELSE f.m % Pow2(E)
         IN IF E <= 9 THEN Dur(secs, frac * Pow2(9 - E) * 1953125)
            ELSE LET D == Pow2(E - 9)
                     qr == LongDiv(frac % D, D, 5, 9)
                     nanos == (frac \div D) * 1953125 + qr[1]
                     up == 2 * qr[2] > D \/ (2 * qr[2] = D /\ nanos % 2 = 1)
                 IN Dur(secs, IF up THEN nanos + 1 ELSE nanos)

\* Duration::as_secs_f32
DurAsSecsF32(d) ==
    F32Add(UIntToF32(d.secs), F32Div(UIntToF32(d.nanos), UIntToF32(NANOS_PER_SEC)))

\* the largest Duration not above n/d seconds, and whether it equals n/d
RatioFloorDur(r) ==
    LET qr == LongDiv(r[1] % r[2], r[2], 10, 9)
    IN [dur |-> Dur(r[1] \div r[2], qr[1]), exact |-> qr[2] = 0]

\* dur >= n/d seconds, exactly
DurGeRatio(dur, r) ==
    IF RatioFloorDur(r).exact THEN ~DurLt(dur, RatioFloorDur(r).dur)
    ELSE DurLt(RatioFloorDur(r).dur, dur)

\* dur <= n/d seconds, exactly
DurLeRatio(dur, r) == ~DurLt(RatioFloorDur(r).dur, dur)

\* Ratio<u64> * u64
RatioMulInt(r, k) == RatioNew(r[1] * k, r[2])

\* ------------------------------------------------------------------ state
VARIABLES
    store,          \* ComponentStore: per component its frequency or NotSchedulable
    pc,             \* "new", "idle", "running" or "panicked"
    panic,          \* the panic that ended the program, "none" otherwise
    current_tick, rollover_tick, tick_real_time, schedule, allotted_time,
    starting_tick,  \* local of Scheduler::run
    iters,          \* loop iterations of the current run invocation
    ticks_consumed, \* ticks the current run invocation has advanced over
    invoked,        \* the calls <<component, cycle_count>> of the last iteration
    events,         \* the calls and returns of component.run in the last iteration
    restored,       \* per component the blob load_snapshot handed it, "none" if none
    file,           \* the values stored in the snapshot file: <<>> or <<MachineState>>
    hook_calls,     \* number of too_slow / too_fast calls so far
    mappings,       \* MemoryTranslationTable.mappings of the one address space
    components,     \* per memory component its configuration
    contents,       \* per memory component the bytes written to its buffer
    writes,         \* number of MemoryTranslationTable::write calls so far
    outcome,        \* the last read / write / preview: its arguments and result
    current_component_index,    \* MachineBuilder.current_component_index
    component_store,            \* MachineBuilder.component_store: the ComponentTables
    builder,        \* "open", "built" (build returned the Machine) or "panicked"
    returned,       \* the (id, component) of every build_component call that returned
    lookups,        \* the get_component calls of the last builder operation
    tables,         \* the set_memory_translation_table calls build made, in order
    input_managers  \* the set_input_manager calls build made, in order

vars == <<store, pc, panic, current_tick, rollover_tick, tick_real_time,
          schedule, allotted_time, starting_tick, iters, ticks_consumed, invoked,
          events,
          restored, file, hook_calls,
          mappings, components, contents, writes, outcome,
          current_component_index, component_store, builder, returned, lookups,
          tables, input_managers>>

builderVars == <<current_component_index, component_store, builder, returned,
                 lookups, tables, input_managers>>

memoryVars == <<mappings, components, contents, writes, outcome>>

machineVars == <<store, pc, panic, current_tick, rollover_tick, tick_real_time,
                 schedule, allotted_time, starting_tick, iters, ticks_consumed,
                 invoked, events, restored, file, hook_calls>>

schedulerVars == <<current_tick, rollover_tick, tick_real_time, schedule, allotted_time>>

runVars == <<starting_tick, iters, ticks_consumed, invoked, events>>

\* Stores list their components by non-decreasing frequency: ids are
\* interchangeable, and New draws every iteration order of the hash map.
FreqKey(f) == f[1] * (MaxDenom + 1) + f[2]

Stores ==
    UNION {{st \in [0..(n - 1) -> Freqs \cup {NotSchedulable}] :
               \A i \in 0..(n - 2) : FreqKey(st[i]) <= FreqKey(st[i + 1])} :
           n \in 0..MaxComponents} \cup {FilmStore}

\* all sequences that list every element of S once
RECURSIVE Orders(_)
Orders(S) ==
    IF S = {} THEN {<<>>}
    ELSE UNION {{<<i>> \o o : o \in Orders(S \ {i})} : i \in S}

\* position of id i in the sequence o
IndexOf(o, i) == CHOOSE k \in 1..Len(o) : o[k] = i

\* the iteration orders a HashMap keyed by the schedulable ids can have;
\* components of equal frequency are interchangeable, so they are kept in
\* id order
HashOrders(st) ==
    {o \in Orders(SchedulableIds(st)) :
        \A i, j \in SchedulableIds(st) :
            (i < j /\ st[i] = st[j]) => IndexOf(o, i) < IndexOf(o, j)}

\* the state before any MemoryTranslationTable operation
NoOperation ==
    [op |-> "none", address |-> 0, len |-> 0, needed_accesses |-> <<>>,
     buffer |-> <<>>, contents |-> <<>>, before |-> <<>>, calls |-> <<>>,
     status |-> "none", panic |-> "none", errors |-> <<>>,
     self_redirects |-> 0, depth |-> 0, passes |-> 0]

SchedulerInit ==
    /\ store \in Stores
    /\ pc = "new"
    /\ panic = "none"
    /\ current_tick = 0
    /\ rollover_tick = 1
    /\ tick_real_time = <<1, 1>>
    /\ schedule = <<>>
    /\ allotted_time = DurFromMillis(SeedMillis)
    /\ starting_tick = 0
    /\ iters = 0
    /\ ticks_consumed = 0
    /\ invoked = <<>>
    /\ events = <<>>
    /\ restored = [i \in DOMAIN store |-> "none"]
    /\ file = <<>>
    /\ hook_calls = 0

\* Machine::build: the MachineBuilder before any component
BuilderInit ==
    /\ current_component_index = 0
    /\ component_store = <<>>
    /\ builder = "open"
    /\ returned = <<>>
    /\ lookups = <<>>
    /\ tables = <<>>
    /\ input_managers = <<>>

Init ==
    /\ SchedulerInit
    /\ mappings = <<>>
    /\ components = <<>>
    /\ contents = <<>>
    /\ writes = 0
    /\ outcome = NoOperation
    /\ BuilderInit

\* --------------------------------------------------------- Scheduler::new
New ==
    /\ pc = "new"
    /\ \E order \in HashOrders(store) :
         LET built == SchedulerNew(store, order)
         IN IF built.panic # "none"
            THEN /\ pc' = "panicked"
                 /\ panic' = built.panic
                 /\ UNCHANGED schedulerVars
            ELSE /\ pc' = "idle"
                 /\ panic' = "none"
                 /\ current_tick' = 0
                 /\ rollover_tick' = common_denominator(store)
                 /\ tick_real_time' = TickRealTime(store)
                 /\ schedule' = built.schedule
                 /\ allotted_time' = DurFromMillis(SeedMillis)
    /\ UNCHANGED memoryVars
    /\ UNCHANGED builderVars
    /\ UNCHANGED <<store, runVars, restored, file, hook_calls>>

\* --------------------------------------------------------- Scheduler::run
\* RangeMap::get_key_value: the slice that contains the tick, <<>> if none
SliceAt(sched, tick) ==
    LET hits == {k \in 1..Len(sched) : sched[k].start <= tick /\ tick < sched[k].end}
    IN IF hits = {} THEN <<>> ELSE <<sched[CHOOSE k \in hits : TRUE]>>

\* (current_tick.wrapping_sub(starting_tick)) as f32
WrappingSubF32(cur, start) ==
    IF cur >= start THEN UIntToF32(cur - start) ELSE Wrapped64ToF32

\* second conjunct of the while condition
EmulatedTimeLeft(cur, start, trt, allotted) ==
    F32Lt(F32Mul(WrappingSubF32(cur, start), RatioToF32(trt)), DurAsSecsF32(allotted))

\* the for loop over component_ids: one run(count) per listed component
Invocations(ids, count) == [k \in 1..Len(ids) |-> <<ids[k], count>>]

\* a dispatch that starts every listed component before any has returned
RunEventsParallel(ids) ==
    [k \in 1..Len(ids) |-> <<"call", ids[k]>>] \o [k \in 1..Len(ids) |-> <<"return", ids[k]>>]

\* the for loop calls component.run and waits for it to return before it
\* takes the next component id
RECURSIVE RunEvents(_)
RunEvents(ids) ==
    IF ids = <<>> THEN <<>>
    ELSE <<<<"call", Head(ids)>>, <<"return", Head(ids)>>>> \o RunEvents(Tail(ids))

\* an advance that ignores the length of the slice
AdvanceTickByOne(cur, count, rollover) == (cur + 1) % rollover

\* an advance that stops at the end of the rollover instead of wrapping
AdvanceTickClamped(cur, count, rollover) ==
    IF cur + count >= rollover THEN cur ELSE cur + count

\* current_tick.saturating_add(count) % rollover_tick
AdvanceTick(cur, count, rollover) == (cur + count) % rollover

RunBegin ==
    /\ pc = "idle"
    /\ pc' = "running"
    /\ starting_tick' = current_tick
    /\ iters' = 0
    /\ ticks_consumed' = 0
    /\ invoked' = <<>>
    /\ events' = <<>>
    /\ UNCHANGED memoryVars
    /\ UNCHANGED builderVars
    /\ UNCHANGED <<store, panic, schedulerVars, restored, file, hook_calls>>

\* one iteration of the while loop; the wall-clock conjunct of the condition
\* is the environment's choice between RunIter and RunEnd
RunIter ==
    /\ pc = "running"
    /\ iters < MaxRunIters
    /\ EmulatedTimeLeft(current_tick, starting_tick, tick_real_time, allotted_time)
    /\ LET hit == SliceAt(schedule, current_tick)
       IN IF hit = <<>>
          THEN /\ current_tick' = AdvanceTick(current_tick, 1, rollover_tick)
               /\ ticks_consumed' = ticks_consumed + 1
               /\ invoked' = <<>>
               /\ events' = <<>>
               /\ UNCHANGED <<pc, panic>>
          ELSE LET count == hit[1].end - hit[1].start
                   ids == hit[1].ids
               IN IF \E k \in 1..Len(ids) : ids[k] \notin SchedulableIds(store)
                  THEN /\ pc' = "panicked"
                       /\ panic' = "Schedule referencing non existant component"
                       /\ UNCHANGED <<current_tick, ticks_consumed, invoked, events>>
                  ELSE /\ invoked' = Invocations(ids, count)
                       /\ events' = RunEvents(ids)
                       /\ current_tick' = AdvanceTick(current_tick, count, rollover_tick)
                       /\ ticks_consumed' = ticks_consumed + count
                       /\ UNCHANGED <<pc, panic>>
    /\ iters' = iters + 1
    /\ UNCHANGED memoryVars
    /\ UNCHANGED builderVars
    /\ UNCHANGED <<store, rollover_tick, tick_real_time, schedule,
                   allotted_time, starting_tick, restored, file, hook_calls>>

\* the loop condition fails (here: the wall clock ran out) and run returns;
\* its locals go out of scope
RunEnd ==
    /\ pc = "running"
    /\ pc' = "idle"
    /\ starting_tick' = 0
    /\ iters' = 0
    /\ ticks_consumed' = 0
    /\ invoked' = <<>>
    /\ events' = <<>>
    /\ UNCHANGED memoryVars
    /\ UNCHANGED builderVars
    /\ UNCHANGED <<store, panic, schedulerVars, restored, file, hook_calls>>

\* ------------------------------------------------------- the pacing hooks
\* a too_slow that also restarts the rollover
too_slow_rewind ==
    /\ pc = "idle"
    /\ hook_calls < MaxHookCalls
    /\ allotted_time' =
         DurMax(DurSaturatingSub(allotted_time, DurFromNanos(NudgeNanos)),
                DurFromSecsF32(RatioToF32(tick_real_time)))
    /\ current_tick' = 0
    /\ hook_calls' = hook_calls + 1
    /\ UNCHANGED memoryVars
    /\ UNCHANGED builderVars
    /\ UNCHANGED <<store, pc, panic, rollover_tick,
                   tick_real_time, schedule, runVars, restored, file>>

too_slow ==
    /\ pc = "idle"
    /\ hook_calls < MaxHookCalls
    /\ allotted_time' =
         DurMax(DurSaturatingSub(allotted_time, DurFromNanos(NudgeNanos)),
                DurFromSecsF32(RatioToF32(tick_real_time)))
    /\ hook_calls' = hook_calls + 1
    /\ UNCHANGED memoryVars
    /\ UNCHANGED builderVars
    /\ UNCHANGED <<store, pc, panic, current_tick, rollover_tick,
                   tick_real_time, schedule, runVars, restored, file>>

too_fast ==
    /\ pc = "idle"
    /\ hook_calls < MaxHookCalls
    /\ allotted_time' =
         DurMin(DurSaturatingAdd(allotted_time, DurFromNanos(NudgeNanos)),
                DurFromSecsF32(RatioToF32(RatioMulInt(tick_real_time, rollover_tick))))
    /\ hook_calls' = hook_calls + 1
    /\ UNCHANGED memoryVars
    /\ UNCHANGED builderVars
    /\ UNCHANGED <<store, pc, panic, current_tick, rollover_tick,
                   tick_real_time, schedule, runVars, restored, file>>

\* -------------------------------------------------------------- snapshots
\* Component::save_snapshot: the opaque blob component i emits
Blob(i) == <<"blob", i>>

MachineState ==
    [scheduler |-> [current_tick |-> current_tick, rollover_tick |-> rollover_tick,
                    tick_real_time |-> tick_real_time, schedule |-> schedule,
                    allotted_time |-> allotted_time],
     components |-> [i \in DOMAIN store |-> Blob(i)]]

\* File::create truncates the file to length zero, then the state is written
save_snapshot ==
    /\ pc = "idle"
    /\ file' = <<MachineState>>
    /\ UNCHANGED memoryVars
    /\ UNCHANGED builderVars
    /\ UNCHANGED <<store, pc, panic, schedulerVars, runVars, restored,
                   hook_calls>>

\* load_snapshot opens the file with File::create as well: the stored state is
\* truncated away before the decoder reads, and the unwrap of the decode
\* error panics before the scheduler or any component is assigned
load_snapshot ==
    /\ pc = "idle"
    /\ file' = <<>>
    /\ pc' = "panicked"
    /\ panic' = "snapshot decode"
    /\ UNCHANGED memoryVars
    /\ UNCHANGED builderVars
    /\ UNCHANGED <<store, schedulerVars, runVars, restored, hook_calls>>

\* the scheduler: construction, run and the pacing hooks
Next ==
    \/ New
    \/ RunBegin
    \/ RunIter
    \/ RunEnd
    \/ too_slow
    \/ too_fast

Spec == Init /\ [][Next]_vars

\* the machine with its snapshots, run at the seeded budget
SnapshotNext ==
    \/ New
    \/ RunBegin
    \/ RunIter
    \/ RunEnd
    \/ save_snapshot
    \/ load_snapshot

SnapshotSpec == Init /\ [][SnapshotNext]_vars

\* Scheduler::new alone, applied to every store and iteration order
ConstructionNext ==
    \/ New

ConstructionSpec == Init /\ [][ConstructionNext]_vars

\* construction and run, at the seeded budget
RunNext ==
    \/ New
    \/ RunBegin
    \/ RunIter
    \/ RunEnd

RunSpec == Init /\ [][RunNext]_vars

\* the scheduler with its pacing hooks on machines of few components
PacingInit ==
    /\ Init
    /\ Cardinality(DOMAIN store) <= MaxPacedComponents

PacingSpec == PacingInit /\ [][Next]_vars

\* Scheduler::run under the assumptions that component.run returns (RunIter
\* is one step) and that the wall clock advances: the first conjunct of the
\* loop condition, allotted_time > timestamp.elapsed(), fails at some check,
\* and run returns at that check
LiveRunSpec == PacingInit /\ [][RunNext]_vars /\ WF_vars(RunEnd)

\* ---------------------------------------------------------------- memory
\* memory.rs, line 7
VALID_ACCESS_SIZES == {1, 2, 4, 8}

\* memory.rs, lines 68-79: the largest valid access size, the capacity of
\* the work stack needed_accesses
MAX_ACCESS_SIZE == CHOOSE max \in VALID_ACCESS_SIZES : \A s \in VALID_ACCESS_SIZES : s <= max

\* ReadMemoryRecord / WriteMemoryRecord / PreviewMemoryRecord
Denied == [type |-> "Denied", address |-> 0]
Redirect(redirect_address) == [type |-> "Redirect", address |-> redirect_address]
Impossible == [type |-> "Impossible", address |-> 0]

\* A RangeMap<usize, V> is the function from every covered address to its
\* value; start..end of Rust is the set start..(end - 1).
ErrorsInsert(errors, start, end, record) ==
    [a \in DOMAIN errors \cup start..(end - 1) |->
        IF a \in start..(end - 1) THEN record ELSE errors[a]]

RECURSIVE Ascending(_)
Ascending(S) ==
    IF S = {} THEN <<>>
    ELSE LET least == CHOOSE a \in S : \A b \in S : a <= b
         IN <<least>> \o Ascending(S \ {least})

\* iteration over a RangeMap: its maximal ranges of one value, ascending
RangeMapIter(m) ==
    LET starts == {a \in DOMAIN m : (a - 1) \notin DOMAIN m \/ m[a - 1] # m[a]}
        EndOf(s) == CHOOSE e \in {a + 1 : a \in DOMAIN m} :
                        /\ e > s
                        /\ e \notin DOMAIN m \/ m[e] # m[s]
                        /\ \A b \in s..(e - 1) : b \in DOMAIN m /\ m[b] = m[s]
        order == Ascending(starts)
    IN [k \in 1..Len(order) |->
           [start |-> order[k], end |-> EndOf(order[k]), record |-> m[order[k]]]]

DivCeil(a, b) == (a + b - 1) \div b

\* one outcome of a MemoryComponent call: the records it reported, the
\* buffer slice it was handed, its backing bytes, whether it panicked, and
\* the trait methods that ran, outermost first
Answer(errors, buffer, bytes, panicked) ==
    [errors |-> errors, buffer |-> buffer, bytes |-> bytes, panicked |-> panicked,
     methods |-> <<>>]

\* the answer of a trait method that was entered
Entered(method, answer) == [answer EXCEPT !.methods = <<method>> \o @]

\* ----------------------------------------------------------- StandardMemory
\* the byte at an offset of the chunked buffer: what was written there last,
\* else StandardMemoryInitialContents::Value
BufferByte(config, bytes, offset) ==
    IF offset \in DOMAIN bytes THEN bytes[offset] ELSE config.value

\* The loop over chunk_index of read_memory and write_memory: the copies
\* <<offset in the chunked buffer, offset in the caller's buffer, length>> it
\* makes, and whether it panics (chunk_end below chunk_start: the subtraction
\* underflows in a checked build and the slice is inverted in any build).
RECURSIVE ChunkLoop(_, _, _, _, _, _)
ChunkLoop(requested_start, requested_end, len, chunk_index, buffer_offset, copies) ==
    LET start_chunk == requested_start \div CHUNK_SIZE
        end_chunk == DivCeil(requested_end, CHUNK_SIZE)
        chunk_start == IF chunk_index = start_chunk
                       THEN requested_start % CHUNK_SIZE ELSE 0
        chunk_end == IF chunk_index = end_chunk - 1
                     THEN requested_end % CHUNK_SIZE ELSE CHUNK_SIZE
        copy == <<chunk_index * CHUNK_SIZE + chunk_start, buffer_offset,
                  chunk_end - chunk_start>>
    IN IF chunk_index >= end_chunk
       THEN [panicked |-> FALSE, copies |-> copies]
       ELSE IF \/ chunk_end < chunk_start
               \/ buffer_offset + chunk_end - chunk_start > len
            THEN [panicked |-> TRUE, copies |-> copies]
            ELSE IF buffer_offset + chunk_end - chunk_start >= len
                 THEN [panicked |-> FALSE, copies |-> Append(copies, copy)]
                 ELSE ChunkLoop(requested_start, requested_end, len, chunk_index + 1,
                                buffer_offset + chunk_end - chunk_start,
                                Append(copies, copy))

\* StandardErrors without the test of readable / writable
StandardErrorsUnchecked(allowed, config, address, len) ==
    LET after == ErrorsInsert(<<>>, config.assigned_range[2], address + len, Denied)
    IN ErrorsInsert(after, address, config.assigned_range[1], Denied)

\* the records StandardMemory reports before it touches its buffer
StandardErrors(allowed, config, address, len) ==
    LET denied == IF allowed THEN <<>>
                  ELSE ErrorsInsert(<<>>, address, address + len, Denied)
        after == ErrorsInsert(denied, config.assigned_range[2], address + len, Denied)
    IN ErrorsInsert(after, address, config.assigned_range[1], Denied)

\* the caller's buffer after the copies of the chunk loop out of the chunks
CopyFromChunks(config, bytes, buffer, loop) ==
    LET Source(k) == {c \in 1..Len(loop.copies) :
                         (k - 1) \in loop.copies[c][2]..(loop.copies[c][2] + loop.copies[c][3] - 1)}
    IN Answer(<<>>,
              [k \in 1..Len(buffer) |->
                  IF Source(k) = {} THEN buffer[k]
                  ELSE LET c == loop.copies[CHOOSE c \in Source(k) : TRUE]
                       IN BufferByte(config, bytes, c[1] + (k - 1) - c[2])],
              bytes, loop.panicked)

StandardReadMemory(config, bytes, address, buffer) ==
    IF DOMAIN StandardErrors(config.readable, config, address, Len(buffer)) # {}
    THEN Answer(StandardErrors(config.readable, config, address, Len(buffer)),
                buffer, bytes, FALSE)
    ELSE CopyFromChunks(config, bytes, buffer,
                        ChunkLoop(address - config.assigned_range[1],
                                  address - config.assigned_range[1] + Len(buffer),
                                  Len(buffer),
                                  (address - config.assigned_range[1]) \div CHUNK_SIZE,
                                  0, <<>>))

\* the copies of the chunk loop when each also overwrites the byte after it
CopyToChunksSpilling(bytes, buffer, loop) ==
    LET Written(c) == loop.copies[c][1]..(loop.copies[c][1] + loop.copies[c][3] - 1)
        written == UNION {Written(c) : c \in 1..Len(loop.copies)}
        spilled == {o + 1 : o \in written} \ written
    IN Answer(<<>>, buffer,
              [o \in DOMAIN bytes \cup written \cup spilled |->
                  IF o \in written
                  THEN LET c == loop.copies[CHOOSE c \in 1..Len(loop.copies) : o \in Written(c)]
                       IN buffer[c[2] + (o - c[1]) + 1]
                  ELSE IF o \in spilled THEN 0 ELSE bytes[o]],
              loop.panicked)

\* the chunks after the copies of the chunk loop out of the caller's buffer
CopyToChunks(bytes, buffer, loop) ==
    LET Written(c) == loop.copies[c][1]..(loop.copies[c][1] + loop.copies[c][3] - 1)
        written == UNION {Written(c) : c \in 1..Len(loop.copies)}
    IN Answer(<<>>, buffer,
              [o \in DOMAIN bytes \cup written |->
                  IF o \in written
                  THEN LET c == loop.copies[CHOOSE c \in 1..Len(loop.copies) : o \in Written(c)]
                       IN buffer[c[2] + (o - c[1]) + 1]
                  ELSE bytes[o]],
              loop.panicked)

StandardWriteMemory(config, bytes, address, buffer) ==
    IF DOMAIN StandardErrors(config.writable, config, address, Len(buffer)) # {}
    THEN Answer(StandardErrors(config.writable, config, address, Len(buffer)),
                buffer, bytes, FALSE)
    ELSE CopyToChunks(bytes, buffer,
                      ChunkLoop(address - config.assigned_range[1],
                                address - config.assigned_range[1] + Len(buffer),
                                Len(buffer),
                                (address - config.assigned_range[1]) \div CHUNK_SIZE,
                                0, <<>>))

\* ---------------------------------------------------------------- RomMemory
\* the byte of the ROM file at an offset
RomByte(offset) == offset % 256

\* seek and read_exact, unwrapped: reading past the end of the file panics
RomReadExact(config, address, buffer) ==
    LET adjusted_offset == address - config.assigned_range[1]
    IN IF adjusted_offset + Len(buffer) > config.rom_len
       THEN [panicked |-> TRUE, buffer |-> buffer]
       ELSE [panicked |-> FALSE,
             buffer |-> [k \in 1..Len(buffer) |-> RomByte(adjusted_offset + k - 1)]]

RomReadMemory(config, bytes, address, buffer) ==
    LET errors == IF Len(buffer) > config.max_word_size
                  THEN ErrorsInsert(<<>>, address, address + Len(buffer), Denied)
                  ELSE <<>>
        rom_file == RomReadExact(config, address, buffer)
    IN Answer(errors, rom_file.buffer, bytes, rom_file.panicked)

RomWriteMemory(config, bytes, address, buffer) ==
    Answer(ErrorsInsert(<<>>, address, address + Len(buffer), Denied), buffer, bytes, FALSE)

RomPreviewMemory(config, bytes, address, buffer) ==
    LET rom_file == RomReadExact(config, address, buffer)
    IN Answer(<<>>, rom_file.buffer, bytes, rom_file.panicked)

\* ------------------------------------------------------------- MirrorMemory
\* `records` of mirror.rs is read as the out-parameter `errors`, and
\* Redirect { offset } as Redirect { address: offset }; OverflowMode is Deny.
MirrorRedirect(allowed, config, address, len) ==
    LET denied == IF allowed THEN <<>>
                  ELSE ErrorsInsert(<<>>, address, address + len, Denied)
        assigned_range_size == config.assigned_range[2] - config.assigned_range[1]
        target_range_size == config.target[2] - config.target[1]
        offset == (address - config.assigned_range[1]) + config.target[1]
        overflow == IF assigned_range_size > target_range_size /\ offset >= config.target[2]
                    THEN ErrorsInsert(denied, address, address + len, Denied)
                    ELSE denied
    IN ErrorsInsert(overflow, address, address + len, Redirect(offset))

MirrorReadMemory(config, bytes, address, buffer) ==
    Answer(MirrorRedirect(config.readable, config, address, Len(buffer)), buffer, bytes, FALSE)

MirrorWriteMemory(config, bytes, address, buffer) ==
    LET len == Len(buffer)
        assigned_range_size == config.assigned_range[2] - config.assigned_range[1]
        target_range_size == config.target[2] - config.target[1]
        offset == (address - config.assigned_range[1]) + config.target[1]
    IN IF ~config.writable
          \/ (assigned_range_size > target_range_size /\ offset >= config.target[2])
       THEN Answer(ErrorsInsert(<<>>, address, address + len, Denied), buffer, bytes, FALSE)
       ELSE Answer(ErrorsInsert(<<>>, address, address + len, Redirect(offset)),
                   buffer, bytes, FALSE)

MirrorPreviewMemory(config, bytes, address, buffer) ==
    IF ~config.readable
    THEN Answer(ErrorsInsert(<<>>, address, address + Len(buffer), Denied), buffer, bytes, FALSE)
    ELSE Answer(MirrorRedirect(TRUE, config, address, Len(buffer)), buffer, bytes, FALSE)

\* ------------------------------------------------------------------ device
\* Any other implementation of the trait (a register block): it leaves the
\* buffer alone and reports, for the bytes it was handed, the records of its
\* script, entries [from, to, record] in offsets from the address it was
\* called with, inserted in order. ReadMemoryRecord and WriteMemoryRecord
\* have no Impossible, so read_memory and write_memory report only the
\* Denied and Redirect entries.
DeviceErrors(script, types, address, len) ==
    LET Reported(o) == {k \in 1..Len(script) :
                           /\ script[k].record.type \in types
                           /\ script[k].from <= o /\ o < script[k].to}
        Last(o) == CHOOSE k \in Reported(o) : \A j \in Reported(o) : j <= k
    IN [a \in {address + o : o \in {o \in 0..(len - 1) : Reported(o) # {}}} |->
           script[Last(a - address)].record]

DeviceReadMemory(config, bytes, address, buffer) ==
    Answer(DeviceErrors(config.script, {"Denied", "Redirect"}, address, Len(buffer)),
           buffer, bytes, FALSE)

DeviceWriteMemory(config, bytes, address, buffer) ==
    Answer(DeviceErrors(config.script, {"Denied", "Redirect"}, address, Len(buffer)),
           buffer, bytes, FALSE)

DevicePreviewMemory(config, bytes, address, buffer) ==
    Answer(DeviceErrors(config.script, {"Denied", "Redirect", "Impossible"},
                        address, Len(buffer)),
           buffer, bytes, FALSE)

\* ----------------------------------------------------------- MemoryComponent
ReadMemory(config, bytes, address, buffer) ==
    Entered("read_memory",
        CASE config.kind = "standard" -> StandardReadMemory(config, bytes, address, buffer)
          [] config.kind = "rom" -> RomReadMemory(config, bytes, address, buffer)
          [] config.kind = "mirror" -> MirrorReadMemory(config, bytes, address, buffer)
          [] config.kind = "device" -> DeviceReadMemory(config, bytes, address, buffer))

WriteMemory(config, bytes, address, buffer) ==
    Entered("write_memory",
        CASE config.kind = "standard" -> StandardWriteMemory(config, bytes, address, buffer)
          [] config.kind = "rom" -> RomWriteMemory(config, bytes, address, buffer)
          [] config.kind = "mirror" -> MirrorWriteMemory(config, bytes, address, buffer)
          [] config.kind = "device" -> DeviceWriteMemory(config, bytes, address, buffer))

\* the provided method of the trait: read_memory, its records translated
\* one to one (Denied to Denied, Redirect to Redirect)
DefaultPreviewMemory(config, bytes, address, buffer) ==
    ReadMemory(config, bytes, address, buffer)

PreviewMemory(config, bytes, address, buffer) ==
    Entered("preview_memory",
        CASE config.kind = "standard" -> DefaultPreviewMemory(config, bytes, address, buffer)
          [] config.kind = "rom" -> RomPreviewMemory(config, bytes, address, buffer)
          [] config.kind = "mirror" -> MirrorPreviewMemory(config, bytes, address, buffer)
          [] config.kind = "device" -> DevicePreviewMemory(config, bytes, address, buffer))

Call(op, config, bytes, address, buffer) ==
    CASE op = "read" -> ReadMemory(config, bytes, address, buffer)
      [] op = "write" -> WriteMemory(config, bytes, address, buffer)
      [] op = "preview" -> PreviewMemory(config, bytes, address, buffer)

\* ---------------------------------------------------- MemoryTranslationTable
\* mappings.overlapping(start..end), ascending
Overlapping(map, start, end) ==
    SelectSeq(map, LAMBDA m : m.start < end /\ start < m.end)

\* The loop over the records one component reported. Denied (and Impossible
\* of a preview) go to detected_errors, kept in st.errors; a Redirect is
\* asserted not to name an address of the assignment range, then pushed with
\* the reported range made relative to the popped address. self_redirects
\* counts the pushed redirects whose next pass lies wholly inside the
\* assignment range, depth is the largest length of the work stack.
RECURSIVE ForErrors(_, _, _, _, _)
ForErrors(records, k, address, assignment, st) ==
    IF k > Len(records) THEN st
    ELSE IF records[k].record.type # "Redirect"
    THEN ForErrors(records, k + 1, address, assignment,
           [st EXCEPT !.errors =
               [a \in DOMAIN @ \cup records[k].start..(records[k].end - 1) |->
                   IF a \in records[k].start..(records[k].end - 1)
                   THEN records[k].record.type ELSE @[a]]])
    ELSE IF records[k].record.address \in assignment.start..(assignment.end - 1)
    THEN [st EXCEPT !.status = "panic", !.panic = "self_redirect"]
    ELSE IF records[k].start < address
    THEN [st EXCEPT !.status = "panic", !.panic = "underflow"]
    ELSE IF Len(st.needed_accesses) >= MAX_ACCESS_SIZE
    THEN [st EXCEPT !.status = "panic", !.panic = "capacity"]
    ELSE ForErrors(records, k + 1, address, assignment,
           [st EXCEPT
              !.needed_accesses = Append(@, <<records[k].record.address,
                                              records[k].start - address,
                                              records[k].end - address>>),
              !.depth = IF Len(st.needed_accesses) + 1 > @
                        THEN Len(st.needed_accesses) + 1 ELSE @,
              !.self_redirects =
                  IF /\ assignment.start
                          <= (records[k].start - address) + records[k].record.address
                     /\ (records[k].end - address) + records[k].record.address
                          <= assignment.end
                  THEN @ + 1 ELSE @])

\* Detected, but only once no redirect is pending
DetectedAfterRedirects(st) ==
    IF st.status = "running" /\ DOMAIN st.errors # {} /\ st.needed_accesses = <<>>
    THEN [st EXCEPT !.status = "err"] ELSE st

\* if !detected_errors.is_empty() { return Err(..) }
Detected(st) ==
    IF st.status = "running" /\ DOMAIN st.errors # {}
    THEN [st EXCEPT !.status = "err"] ELSE st

\* the state after one component was called with the slice of the popped
\* item <<address, buffer_subrange.start, buffer_subrange.end>>
Called(st, item, assignment, overlap, answer) ==
    [st EXCEPT
       !.buffer = [i \in 1..Len(st.buffer) |->
                      IF i \in (item[2] + 1)..item[3]
                      THEN answer.buffer[i - item[2]] ELSE st.buffer[i]],
       !.contents = [@ EXCEPT ![assignment.component] = answer.bytes],
       !.calls = Append(@, [component |-> assignment.component, op |-> st.op,
                            address |-> overlap[1],
                            len |-> Len(answer.buffer),
                            methods |-> answer.methods,
                            records |-> answer.errors,
                            pass |-> st.passes,
                            subrange |-> <<item[2], item[3]>>,
                            slice |-> <<item[2], item[2] + Len(answer.buffer)>>,
                            overlap |-> overlap,
                            access |-> <<item[2] + item[1], item[3] + item[1]>>]),
       !.status = IF answer.panicked THEN "panic" ELSE @,
       !.panic = IF answer.panicked THEN "component" ELSE @]

\* one component's answer taken in: its records are looked at unless it panicked
Answered(st, item, assignment, overlap, answer) ==
    IF answer.panicked THEN Called(st, item, assignment, overlap, answer)
    ELSE Detected(ForErrors(RangeMapIter(answer.errors), 1, item[1], assignment,
                            Called(st, item, assignment, overlap, answer)))

\* The loop over the components whose assignment overlaps the accessed range
\* of one popped item: the component is called with overlap.start and the
\* whole buffer[buffer_subrange].
RECURSIVE ForOverlapping(_, _, _, _, _)
ForOverlapping(op, table, st, item, k) ==
    LET overlapping == Overlapping(table.mappings, item[2] + item[1], item[3] + item[1])
        overlap_start == IF item[2] + item[1] >= overlapping[k].start
                         THEN item[2] + item[1] ELSE overlapping[k].start
        overlap_end == IF item[3] + item[1] <= overlapping[k].end
                       THEN item[3] + item[1] ELSE overlapping[k].end
    IN IF st.status # "running" \/ k > Len(overlapping) THEN st
       ELSE IF item[3] > Len(st.buffer) \/ item[2] > item[3]
       THEN [st EXCEPT !.status = "panic", !.panic = "slice"]
       ELSE ForOverlapping(op, table,
                Answered(st, item, overlapping[k], <<overlap_start, overlap_end>>,
                         Call(op, table.components[overlapping[k].component],
                              st.contents[overlapping[k].component], overlap_start,
                              SubSeq(st.buffer, item[2] + 1, item[3]))),
                item, k + 1)

\* while let Some(..) = needed_accesses.pop(): the loop is deterministic in
\* the stack, the buffer and the components' bytes, so a pass that starts from
\* a configuration seen before never ends ("hang").
RECURSIVE Resolve(_, _, _, _)
Resolve(op, table, st, seen) ==
    LET configuration == <<st.needed_accesses, st.buffer, st.contents>>
    IN IF st.status # "running" THEN st
       ELSE IF st.needed_accesses = <<>> THEN [st EXCEPT !.status = "ok"]
       ELSE IF configuration \in seen THEN [st EXCEPT !.status = "hang"]
       ELSE Resolve(op, table,
                    ForOverlapping(op, table,
                        [st EXCEPT !.needed_accesses = SubSeq(@, 1, Len(@) - 1),
                                   !.passes = @ + 1],
                        st.needed_accesses[Len(st.needed_accesses)], 1),
                    seen \cup {configuration})

\* MemoryTranslationTable::read / write / preview of buffer at address: what
\* the caller sees of it, the components' bytes before and after it, and the
\* calls it made
Operation(op, table, bytes, address, buffer) ==
    Resolve(op, table,
            [op |-> op, address |-> address, len |-> Len(buffer),
             needed_accesses |-> <<<<address, 0, Len(buffer)>>>>,
             buffer |-> buffer, contents |-> bytes, before |-> bytes, calls |-> <<>>,
             status |-> "running", panic |-> "none", errors |-> <<>>,
             self_redirects |-> 0, depth |-> 1, passes |-> 0],
            {})

\* ------------------------------------------------------ memory machines
StandardMemoryConfig(start, end, readable, writable) ==
    [kind |-> "standard", assigned_range |-> <<start, end>>,
     readable |-> readable, writable |-> writable,
     max_word_size |-> MAX_ACCESS_SIZE, value |-> 255,
     target |-> <<0, 0>>, rom_len |-> 0]

RomMemoryConfig(start, end) ==
    [kind |-> "rom", assigned_range |-> <<start, end>>,
     readable |-> TRUE, writable |-> FALSE,
     max_word_size |-> MAX_ACCESS_SIZE, value |-> 0,
     target |-> <<0, 0>>, rom_len |-> end - start]

MirrorMemoryConfig(start, end, target_start) ==
    [kind |-> "mirror", assigned_range |-> <<start, end>>,
     readable |-> TRUE, writable |-> TRUE,
     max_word_size |-> MAX_ACCESS_SIZE, value |-> 0,
     target |-> <<target_start, target_start + (end - start)>>, rom_len |-> 0]

DeviceConfig(start, end, script) ==
    [kind |-> "device", assigned_range |-> <<start, end>>, script |-> script]

\* MemoryTranslationTable::new: every component mapped at its assigned range
MemoryTranslationTableNew(configs) ==
    LET order == Ascending({configs[id].assigned_range[1] : id \in DOMAIN configs})
    IN [mappings |-> [k \in 1..Len(order) |->
                         LET id == CHOOSE id \in DOMAIN configs :
                                       configs[id].assigned_range[1] = order[k]
                         IN [start |-> configs[id].assigned_range[1],
                             end |-> configs[id].assigned_range[2],
                             component |-> id]],
        components |-> configs]

\* component ids count from 0
Components(list) == [id \in 0..(Len(list) - 1) |-> list[id + 1]]

\* the assigned ranges are whole chunks: chunk c is c * CHUNK_SIZE .. (c + 1) * CHUNK_SIZE
Chunk(c) == c * CHUNK_SIZE

\* one store of two chunks
RamMachine == Components(<<StandardMemoryConfig(Chunk(0), Chunk(2), TRUE, TRUE)>>)
\* two adjacent stores
TwoRamsMachine ==
    Components(<<StandardMemoryConfig(Chunk(0), Chunk(1), TRUE, TRUE),
                 StandardMemoryConfig(Chunk(1), Chunk(2), TRUE, TRUE)>>)
\* a store followed by addresses nothing claims
RamAndGapMachine == Components(<<StandardMemoryConfig(Chunk(0), Chunk(1), TRUE, TRUE)>>)
\* the read-only components
ReadOnlyMachine ==
    Components(<<RomMemoryConfig(Chunk(0), Chunk(1)),
                 StandardMemoryConfig(Chunk(1), Chunk(2), TRUE, FALSE)>>)
\* a mirror of a store, and a mirror of that mirror
MirrorChainMachine ==
    Components(<<StandardMemoryConfig(Chunk(0), Chunk(1), TRUE, TRUE),
                 MirrorMemoryConfig(Chunk(1), Chunk(2), Chunk(0)),
                 MirrorMemoryConfig(Chunk(2), Chunk(3), Chunk(1))>>)
\* two mirrors of each other
MutualMirrorsMachine ==
    Components(<<MirrorMemoryConfig(Chunk(0), Chunk(1), Chunk(1)),
                 MirrorMemoryConfig(Chunk(1), Chunk(2), Chunk(0))>>)
\* a mirror of itself
SelfMirrorMachine ==
    Components(<<StandardMemoryConfig(Chunk(0), Chunk(1), TRUE, TRUE),
                 MirrorMemoryConfig(Chunk(1), Chunk(2), Chunk(1))>>)
\* a mirror whose target starts below its own range and ends inside it
OverlapMirrorMachine ==
    Components(<<MirrorMemoryConfig(Chunk(0), Chunk(1), Chunk(2)),
                 MirrorMemoryConfig(Chunk(1), Chunk(2), Chunk(1) - 4),
                 StandardMemoryConfig(Chunk(2), Chunk(3), TRUE, TRUE)>>)

\* a device that redirects the first byte it is handed into the store next to
\* it, denies the second and cannot preview the third
DeniedDeviceMachine ==
    Components(<<DeviceConfig(Chunk(0), Chunk(1),
                              <<[from |-> 0, to |-> 1, record |-> Redirect(Chunk(1))],
                                [from |-> 1, to |-> 2, record |-> Denied],
                                [from |-> 2, to |-> 3, record |-> Impossible]>>),
                 StandardMemoryConfig(Chunk(1), Chunk(2), TRUE, TRUE)>>)

\* redirects every byte it is handed on its own, byte k to base + 16 * k
Bytewise(base) ==
    [k \in 1..MAX_ACCESS_SIZE |->
        [from |-> k - 1, to |-> k, record |-> Redirect(base + 16 * (k - 1))]]

\* two such devices side by side, redirecting into the store after them
SplitterMachine ==
    Components(<<DeviceConfig(Chunk(0), Chunk(1), Bytewise(Chunk(2))),
                 DeviceConfig(Chunk(1), Chunk(2), Bytewise(Chunk(2) + 256)),
                 StandardMemoryConfig(Chunk(2), Chunk(3), TRUE, TRUE)>>)

Machines ==
    {RamMachine, TwoRamsMachine, RamAndGapMachine, ReadOnlyMachine,
     MirrorChainMachine, MutualMirrorsMachine, SelfMirrorMachine,
     OverlapMirrorMachine, DeniedDeviceMachine, SplitterMachine}

\* the accesses: at the first address, and ending on, straddling and starting on
\* the boundaries of the chunks
AccessAddresses(w) ==
    {Chunk(0), Chunk(1) - w, Chunk(1) - (w \div 2), Chunk(1), Chunk(2) - w, Chunk(2)}

\* the bytes a write carries
Payload(w) == [k \in 1..w |-> 16 + k]

MemoryInit ==
    /\ store = <<>>
    /\ SchedulerInit
    /\ \E configs \in Machines :
         LET table == MemoryTranslationTableNew(configs)
         IN /\ mappings = table.mappings
            /\ components = table.components
            /\ contents = [id \in DOMAIN configs |-> <<>>]
    /\ writes = 0
    /\ outcome = NoOperation
    /\ BuilderInit

\* a panic unwinds the caller, a loop that never ends never returns to it
Returned == outcome.status \notin {"panic", "hang"}

read ==
    /\ Returned
    /\ \E w \in VALID_ACCESS_SIZES : \E address \in AccessAddresses(w) :
         outcome' = Operation("read", [mappings |-> mappings, components |-> components],
                              contents, address, [k \in 1..w |-> 0])
    /\ contents' = outcome'.contents
    /\ UNCHANGED <<mappings, components, writes>>
    /\ UNCHANGED machineVars
    /\ UNCHANGED builderVars

write ==
    /\ Returned
    /\ writes < MaxWrites
    /\ \E w \in VALID_ACCESS_SIZES : \E address \in AccessAddresses(w) :
         outcome' = Operation("write", [mappings |-> mappings, components |-> components],
                              contents, address, Payload(w))
    /\ contents' = outcome'.contents
    /\ writes' = writes + 1
    /\ UNCHANGED <<mappings, components>>
    /\ UNCHANGED machineVars
    /\ UNCHANGED builderVars

preview ==
    /\ Returned
    /\ \E w \in VALID_ACCESS_SIZES : \E address \in AccessAddresses(w) :
         outcome' = Operation("preview", [mappings |-> mappings, components |-> components],
                              contents, address, [k \in 1..w |-> 0])
    /\ contents' = outcome'.contents
    /\ UNCHANGED <<mappings, components, writes>>
    /\ UNCHANGED machineVars
    /\ UNCHANGED builderVars

MemoryNext ==
    \/ read
    \/ write
    \/ preview

MemorySpec == MemoryInit /\ [][MemoryNext]_vars

\* -------------------------------------------------------- MachineBuilder
\* Option<T>: <<>> is None, <<x>> is Some(x)
None == <<>>
Some(x) == <<x>>

M6502Config(frequency) == [kind |-> "m6502", frequency |-> frequency]

\* a processor that holds a handle of a sibling: from_config looks the sibling
\* up by the id of its config, with the concrete type of the field
ProcessorConfig(frequency, id, kind) ==
    [kind |-> "processor", frequency |-> frequency,
     sibling |-> [id |-> id, kind |-> kind]]

\* NesPPU has Config = ()
NesPPUConfig == [kind |-> "ppu"]

\* the registers NesPPU::from_config claims: 0x2000..0x2008 and 0x4014..0x4015
NesPPURanges == {<<8192, 8200>>, <<16404, 16405>>}

\* ComponentStore::get: Vec::get at the index component_id.0
ComponentStoreGet(st, component_id) ==
    IF component_id < Len(st) THEN Some(st[component_id + 1]) ELSE None

\* GetComponent without the downcast to the type asked for
GetComponentOfAnyType(st, id, kind) ==
    IF ComponentStoreGet(st, id) = None THEN None
    ELSE Some(ComponentStoreGet(st, id)[1].component)

\* MachineBuilder::get_component::<C>(id): None for an id the store does not
\* hold and for a component of another concrete type
GetComponent(st, id, kind) ==
    IF ComponentStoreGet(st, id) = None THEN None
    ELSE IF ComponentStoreGet(st, id)[1].component.kind = kind
    THEN Some(ComponentStoreGet(st, id)[1].component)
    ELSE None

\* one get_component call as the history keeps it: what was asked, the store
\* it was asked of, the id under construction (None outside a factory) and
\* the handle returned
Lookup(st, constructing, id, kind, result) ==
    [id |-> id, kind |-> kind, constructing |-> constructing,
     built |-> Len(st), result |-> result]

\* ComponentBuilder { component: None, as_schedulable: None, .. }
ComponentBuilderNew ==
    [component |-> None, as_schedulable |-> None, as_display |-> None,
     as_input |-> None, as_memory |-> None]

\* ComponentBuilder::set_component
set_component(cb, component) == [cb EXCEPT !.component = Some(component)]

\* ComponentBuilder::set_schedulable: self.component.clone().map(..), None
\* while no component is set
set_schedulable(cb, timings) ==
    [cb EXCEPT !.as_schedulable = IF cb.component = None THEN None ELSE Some(timings)]

\* ComponentBuilder::set_display
set_display(cb) ==
    [cb EXCEPT !.as_display = IF cb.component = None THEN None ELSE Some(cb.component[1])]

\* ComponentBuilder::set_memory
set_memory(cb, ranges) ==
    [cb EXCEPT !.as_memory = IF cb.component = None THEN None ELSE Some(ranges)]

\* ComponentBuilder::set_input: registered_gamepads, a list of gamepad types
set_input(cb, gamepads) ==
    [cb EXCEPT !.as_input = IF cb.component = None THEN None ELSE Some(gamepads)]

\* one call a factory makes on its ComponentBuilder
Setter(method, timings, ranges, gamepads) ==
    [method |-> method, timings |-> timings, ranges |-> ranges, gamepads |-> gamepads]

\* a component type whose from_config makes the given calls, in order
ScriptedConfig(name, calls) == [kind |-> "scripted", name |-> name, calls |-> calls]

\* registers every capability, then sets the component
EarlyConfig ==
    ScriptedConfig("early", <<Setter("set_schedulable", <<1, 1>>, {}, <<>>),
                              Setter("set_memory", NotSchedulable, {<<12, 16>>}, <<>>),
                              Setter("set_display", NotSchedulable, {}, <<>>),
                              Setter("set_input", NotSchedulable, {}, <<"pad">>),
                              Setter("set_component", NotSchedulable, {}, <<>>)>>)

\* registers two capabilities twice
TwiceConfig ==
    ScriptedConfig("twice", <<Setter("set_component", NotSchedulable, {}, <<>>),
                              Setter("set_schedulable", <<1, 1>>, {}, <<>>),
                              Setter("set_memory", NotSchedulable, {<<16, 20>>}, <<>>),
                              Setter("set_schedulable", <<2, 1>>, {}, <<>>),
                              Setter("set_memory", NotSchedulable, {<<20, 24>>}, <<>>),
                              Setter("set_display", NotSchedulable, {}, <<>>)>>)

\* an input component with the given gamepads
PadConfig(gamepads) ==
    ScriptedConfig("pad", <<Setter("set_component", NotSchedulable, {}, <<>>),
                            Setter("set_input", NotSchedulable, {}, gamepads)>>)

\* the calls from_config of each component type makes on its builder
FactoryCalls(config) ==
    CASE config.kind = "standard" ->
           <<Setter("set_component", NotSchedulable, {}, <<>>),
             Setter("set_memory", NotSchedulable, {config.assigned_range}, <<>>)>>
      [] config.kind = "mirror" ->
           <<Setter("set_component", NotSchedulable, {}, <<>>)>>
      [] config.kind = "ppu" ->
           <<Setter("set_component", NotSchedulable, {}, <<>>),
             Setter("set_memory", NotSchedulable, NesPPURanges, <<>>)>>
      [] config.kind = "m6502" ->
           <<Setter("set_component", NotSchedulable, {}, <<>>),
             Setter("set_schedulable", config.frequency, {}, <<>>)>>
      [] config.kind = "processor" ->
           <<Setter("set_component", NotSchedulable, {}, <<>>),
             Setter("set_schedulable", config.frequency, {}, <<>>),
             Setter("set_input", NotSchedulable, {}, <<"Chip8 Keypad">>)>>
      [] config.kind = "scripted" -> config.calls

\* the builder after the calls k.. of a factory
RECURSIVE ApplySetters(_, _, _, _)
ApplySetters(cb, config, calls, k) ==
    IF k > Len(calls) THEN cb
    ELSE ApplySetters(
             CASE calls[k].method = "set_component" -> set_component(cb, config)
               [] calls[k].method = "set_schedulable" -> set_schedulable(cb, calls[k].timings)
               [] calls[k].method = "set_display" -> set_display(cb)
               [] calls[k].method = "set_memory" -> set_memory(cb, calls[k].ranges)
               [] calls[k].method = "set_input" -> set_input(cb, calls[k].gamepads),
             config, calls, k + 1)

\* what a factory left in its ComponentBuilder
Made(cb, looked_up, panicked) ==
    [component |-> cb.component, as_schedulable |-> cb.as_schedulable,
     as_display |-> cb.as_display, as_input |-> cb.as_input,
     as_memory |-> cb.as_memory, lookups |-> looked_up, panic |-> panicked]

\* C::from_config(&mut component_builder, config) of the component types
FromConfig(config, id, st) ==
    CASE config.kind = "standard" ->
           IF config.max_word_size \notin VALID_ACCESS_SIZES
           THEN Made(ComponentBuilderNew, <<>>, "Invalid word size")
           ELSE IF EmptyRange(config.assigned_range[1], config.assigned_range[2])
           THEN Made(ComponentBuilderNew, <<>>, "Memory assigned must be non-empty")
           ELSE Made(ApplySetters(ComponentBuilderNew, config, FactoryCalls(config), 1),
                     <<>>, "none")
      [] config.kind = "processor" ->
           IF GetComponent(st, config.sibling.id, config.sibling.kind) = None
           THEN Made(ComponentBuilderNew,
                     <<Lookup(st, Some(id), config.sibling.id, config.sibling.kind, None)>>,
                     "component not found")
           ELSE Made(ApplySetters(ComponentBuilderNew, config, FactoryCalls(config), 1),
                     <<Lookup(st, Some(id), config.sibling.id, config.sibling.kind,
                              GetComponent(st, config.sibling.id, config.sibling.kind))>>,
                     "none")
      [] OTHER ->
           Made(ApplySetters(ComponentBuilderNew, config, FactoryCalls(config), 1),
                <<>>, "none")

\* the ComponentTable of a finished ComponentBuilder
ComponentTable(made) ==
    [component |-> made.component[1], as_schedulable |-> made.as_schedulable,
     as_display |-> made.as_display, as_input |-> made.as_input,
     as_memory |-> made.as_memory]

\* a push to the front of the store
ComponentStorePushFront(st, made) == <<ComponentTable(made)>> \o st

\* ComponentBuilder::build: component_store.0.push(ComponentTable { .. })
ComponentStorePush(st, made) == Append(st, ComponentTable(made))

\* the configs build_component is called with
BuilderConfigs ==
    {StandardMemoryConfig(0, 4, TRUE, TRUE), StandardMemoryConfig(2, 6, TRUE, TRUE),
     StandardMemoryConfig(4, 8, TRUE, TRUE), MirrorMemoryConfig(8, 12, 0),
     M6502Config(<<1, 1>>), M6502Config(<<2, 1>>)}
        \cup {ProcessorConfig(<<1, 1>>, id, "m6502") : id \in 0..(MaxBuilt - 1)}

\* every variable of the machine but panic
builtVars == <<store, pc, schedulerVars, runVars, restored, file, hook_calls>>

\* MachineBuilder::build_component::<C>(config)
BuildComponent(config) ==
    /\ builder = "open"
    /\ Len(component_store) < MaxBuilt
    /\ IF current_component_index + 1 > U16_MAX
       THEN /\ builder' = "panicked"
            /\ panic' = "Too many components"
            /\ UNCHANGED <<current_component_index, component_store, returned, lookups>>
       ELSE /\ current_component_index' = current_component_index + 1
            /\ lookups' = FromConfig(config, current_component_index, component_store).lookups
            /\ IF FromConfig(config, current_component_index, component_store).panic # "none"
               THEN /\ builder' = "panicked"
                    /\ panic' = FromConfig(config, current_component_index,
                                           component_store).panic
                    /\ UNCHANGED <<component_store, returned>>
               ELSE IF Len(component_store) # current_component_index
               THEN /\ builder' = "panicked"
                    /\ panic' = "assertion failed"
                    /\ UNCHANGED <<component_store, returned>>
               ELSE IF FromConfig(config, current_component_index,
                                  component_store).component = None
               THEN /\ builder' = "panicked"
                    /\ panic' = "Component did not initialize itself"
                    /\ UNCHANGED <<component_store, returned>>
               ELSE /\ component_store' =
                         ComponentStorePush(component_store,
                             FromConfig(config, current_component_index, component_store))
                    /\ returned' = Append(returned,
                                          [id |-> current_component_index,
                                           component |-> config])
                    /\ UNCHANGED <<builder, panic>>
    /\ UNCHANGED <<tables, input_managers>>
    /\ UNCHANGED builtVars
    /\ UNCHANGED memoryVars

build_component == \E config \in BuilderConfigs : BuildComponent(config)

\* factories that call the setters in other orders and numbers
ScriptedConfigs == {EarlyConfig, TwiceConfig, PadConfig(<<>>), PadConfig(<<"pad", "pad">>)}

\* build_component of such a type
build_scripted == \E config \in ScriptedConfigs : BuildComponent(config)

\* MachineBuilder::default_component::<C>(): build_component with
\* C::Config::default()
default_component == BuildComponent(NesPPUConfig)

\* get_component called on the builder between two build_component calls
get_component ==
    /\ builder = "open"
    /\ \E id \in 0..MaxBuilt, kind \in {"standard", "m6502"} :
         lookups' = <<Lookup(component_store, None, id, kind,
                             GetComponent(component_store, id, kind))>>
    /\ UNCHANGED <<current_component_index, component_store, builder, returned, tables,
                   input_managers>>
    /\ UNCHANGED <<builtVars, panic>>
    /\ UNCHANGED memoryVars

\* the ids of the components with a Memory capability
MemoryIds(st) == {id \in 0..(Len(st) - 1) : st[id + 1].as_memory # None}

\* the addresses of a RangeSet
Covered(ranges) == UNION {r[1]..(r[2] - 1) : r \in ranges}

\* The ranges of the components with a Memory capability inserted into the
\* RangeMap of the address space, one component after the other in the order
\* the store is iterated: an insert replaces what it overlaps.
RECURSIVE InsertComponents(_, _, _, _)
InsertComponents(table, st, order, k) ==
    IF k > Len(order) THEN table
    ELSE InsertComponents(
             [a \in DOMAIN table \cup Covered(st[order[k] + 1].as_memory[1]) |->
                 IF a \in Covered(st[order[k] + 1].as_memory[1])
                 THEN order[k] ELSE table[a]],
             st, order, k + 1)

\* MemoryTranslationTable.mappings as the memory operations read it
Mappings(iter) ==
    [k \in 1..Len(iter) |->
        [start |-> iter[k].start, end |-> iter[k].end, component |-> iter[k].record]]

\* the frequency of every component of the store, as Scheduler::new reads it
Timings(st) ==
    [i \in 0..(Len(st) - 1) |->
        IF st[i + 1].as_schedulable = None THEN NotSchedulable
        ELSE st[i + 1].as_schedulable[1]]

\* the hook called on the components with a Memory capability only
SetMemoryTranslationTablesOfMemory(st, table) ==
    [k \in 1..Cardinality(MemoryIds(st)) |->
        [component |-> Ascending(MemoryIds(st))[k], table |-> table]]

\* "Set the memory translation tables for everything": the calls
\* component.set_memory_translation_table(table), in store order
SetMemoryTranslationTables(st, table) ==
    [k \in 1..Len(st) |-> [component |-> k - 1, table |-> table]]

\* "Setup emulated gamepads": the (component_id, gamepad_type_id) pairs of
\* the components with an Input capability, in store order from component k on
RECURSIVE RegisteredGamepads(_, _)
RegisteredGamepads(st, k) ==
    IF k > Len(st) THEN <<>>
    ELSE IF st[k].as_input = None THEN RegisteredGamepads(st, k + 1)
    ELSE [g \in 1..Len(st[k].as_input[1]) |->
             [component |-> k - 1, type |-> st[k].as_input[1][g]]]
         \o RegisteredGamepads(st, k + 1)

\* emulated_gamepad_ids: per component the positions (.enumerate()) of its
\* pairs, an entry only for a component with a pair
emulated_gamepad_ids(pairs) ==
    [id \in {pairs[k].component : k \in 1..Len(pairs)} |->
        Ascending({k - 1 : k \in {j \in 1..Len(pairs) : pairs[j].component = id}})]

\* "Set up input for only input components": the calls
\* component.set_input_manager(input_manager, &gamepad_ids), in the iteration
\* order of the emulated_gamepad_ids hash map
SetInputManagers(ids, order) ==
    [k \in 1..Len(order) |-> [component |-> order[k], gamepad_ids |-> ids[order[k]]]]

\* MachineBuilder::build(self) -> Machine
build ==
    /\ builder = "open"
    /\ \E insertion \in Orders(MemoryIds(component_store)) :
       \E order \in HashOrders(Timings(component_store)) :
       \E pads \in Orders(DOMAIN emulated_gamepad_ids(RegisteredGamepads(component_store, 1))) :
         IF Len(RegisteredGamepads(component_store, 1)) > U8_MAX + 1
         THEN /\ builder' = "panicked"
              /\ panic' = "Too many gamepads!"
              /\ UNCHANGED <<builtVars, mappings, components, contents, tables,
                             input_managers>>
         ELSE IF SchedulerNew(Timings(component_store), order).panic # "none"
         THEN /\ builder' = "panicked"
              /\ panic' = SchedulerNew(Timings(component_store), order).panic
              /\ UNCHANGED <<builtVars, mappings, components, contents, tables,
                             input_managers>>
         ELSE /\ mappings' = Mappings(RangeMapIter(
                                 InsertComponents(<<>>, component_store, insertion, 1)))
              /\ components' = [id \in MemoryIds(component_store) |->
                                   component_store[id + 1].component]
              /\ contents' = [id \in MemoryIds(component_store) |-> <<>>]
              /\ store' = Timings(component_store)
              /\ pc' = "idle"
              /\ panic' = "none"
              /\ current_tick' = 0
              /\ rollover_tick' = common_denominator(Timings(component_store))
              /\ tick_real_time' = TickRealTime(Timings(component_store))
              /\ schedule' = SchedulerNew(Timings(component_store), order).schedule
              /\ allotted_time' = DurFromMillis(SeedMillis)
              /\ restored' = [i \in DOMAIN Timings(component_store) |-> "none"]
              /\ tables' = SetMemoryTranslationTables(component_store, mappings')
              /\ input_managers' =
                     SetInputManagers(
                         emulated_gamepad_ids(RegisteredGamepads(component_store, 1)), pads)
              /\ builder' = "built"
              /\ UNCHANGED <<runVars, file, hook_calls>>
    /\ lookups' = <<>>
    /\ UNCHANGED <<current_component_index, component_store, returned>>
    /\ UNCHANGED <<writes, outcome>>

\* Machine::build(game_system, rom_manager)
MachineBuild ==
    /\ store = <<>>
    /\ Init

BuilderNext ==
    \/ build_component
    \/ default_component
    \/ get_component
    \/ build

BuilderSpec == MachineBuild /\ [][BuilderNext]_vars

\* the builder with the scripted factories as well
FactoryNext ==
    \/ build_component
    \/ build_scripted
    \/ default_component
    \/ build

FactorySpec == MachineBuild /\ [][FactoryNext]_vars

\* ----------------------------------------------------------------- claims
\* a Scheduler exists: Scheduler::new returned
Built == pc \in {"idle", "running"}

SliceLen(sl) == sl.end - sl.start

SliceIds(sl) == {sl.ids[k] : k \in 1..Len(sl.ids)}

\* cycles the schedule hands component i over one rollover
RECURSIVE Tally(_, _)
Tally(sched, i) ==
    IF sched = <<>> THEN 0
    ELSE (IF i \in SliceIds(Head(sched)) THEN SliceLen(Head(sched)) ELSE 0)
         + Tally(Tail(sched), i)

\* C1: over one rollover the schedule hands every schedulable component
\* exactly rollover_tick / tick_rate cycles.
ExactActivations ==
    Built => \A i \in SchedulableIds(store) :
                 Tally(schedule, i) * ratios(store)[i] = rollover_tick

\* C2: the slices tile [0, rollover_tick): every tick lies in exactly one
\* slice, slices are pairwise disjoint and none extends past rollover_tick
\* (stated for machines with at least one schedulable component).
SlicesTileRollover ==
    (Built /\ SchedulableIds(store) # {}) =>
        /\ \A t \in 0..(rollover_tick - 1) :
               Cardinality({k \in 1..Len(schedule) :
                   schedule[k].start <= t /\ t < schedule[k].end}) = 1
        /\ \A k, l \in 1..Len(schedule) :
               k # l => (schedule[k].end <= schedule[l].start
                         \/ schedule[l].end <= schedule[k].start)
        /\ \A k \in 1..Len(schedule) : schedule[k].end <= rollover_tick

\* C3: Scheduler::new never panics: it inserts no empty range and does not
\* divide by zero, whatever the positive frequencies.
ConstructionNeverPanics == panic \notin {"empty range", "divide by zero"}

SameSlices(a, b) ==
    /\ Len(a) = Len(b)
    /\ \A k \in 1..Len(a) :
           /\ a[k].start = b[k].start
           /\ a[k].end = b[k].end
           /\ SliceIds(a[k]) = SliceIds(b[k])

\* C5: the schedule does not depend on the order in which the hash map of
\* components is iterated.
ScheduleIndependentOfIterationOrder ==
    Built => \A o \in Orders(SchedulableIds(store)) :
                 /\ SchedulerNew(store, o).panic = "none"
                 /\ SameSlices(SchedulerNew(store, o).schedule, schedule)

\* C6: an iteration of the run loop starts only while the emulated time of
\* the ticks consumed so far in this invocation is below allotted_time
\* (stated for machines with at least one schedulable component).
IterationOnlyUnderBudget ==
    [][(pc = "running" /\ pc' = "running" /\ iters' = iters + 1
            /\ SchedulableIds(store) # {})
         => ~DurLeRatio(allotted_time, RatioMulInt(tick_real_time, ticks_consumed))]_vars

\* number of calls of component i in a sequence of calls
CallsOf(calls, i) == Cardinality({k \in 1..Len(calls) : calls[k][1] = i})

HooksClampOwnBound ==
    [][/\ too_slow => DurGeRatio(allotted_time', tick_real_time)
       /\ too_fast => DurLeRatio(allotted_time',
                                 RatioMulInt(tick_real_time, rollover_tick))]_vars

\* C9: after any call of either hook
\* tick_real_time <= allotted_time <= tick_real_time * rollover_tick
\* (stated for machines with at least one schedulable component).
HooksClampBothBounds ==
    (Built /\ hook_calls >= 1 /\ SchedulableIds(store) # {}) =>
        /\ DurGeRatio(allotted_time, tick_real_time)
        /\ DurLeRatio(allotted_time, RatioMulInt(tick_real_time, rollover_tick))

\* C10: load_snapshot leaves the stored snapshot as it was, makes the
\* scheduler equal to the saved one and hands every component its own blob.
LoadRestoresSnapshot ==
    [][(load_snapshot /\ file # <<>> /\ SchedulableIds(store) # {})
         => /\ file' = file
            /\ pc' = "idle"
            /\ <<current_tick', rollover_tick', tick_real_time', schedule',
                 allotted_time'>>
               = <<file[1].scheduler.current_tick, file[1].scheduler.rollover_tick,
                   file[1].scheduler.tick_real_time, file[1].scheduler.schedule,
                   file[1].scheduler.allotted_time>>
            /\ \A i \in DOMAIN store : restored'[i] = file[1].components[i]]_vars

\* components whose run has been called and has not returned after the
\* first n events
InProgress(ev, n) ==
    {i \in DOMAIN store :
        Cardinality({k \in 1..n : ev[k] = <<"call", i>>})
          > Cardinality({k \in 1..n : ev[k] = <<"return", i>>})}

\* C11: at every moment of an iteration at most one component's run is in
\* progress, and a listed component's run returns before the next one is
\* called.
SequentialInvocation ==
    /\ \A n \in 0..Len(events) : Cardinality(InProgress(events, n)) <= 1
    /\ \A k \in 1..Len(events) :
           (events[k][1] = "call" /\ k > 1) => events[k - 1][1] = "return"

\* an iteration has just run a slice that lists three components
IterationRanThreeComponents ==
    /\ pc = "running"
    /\ Len(events) = 6

\* C12: run leaves rollover_tick, tick_real_time, the schedule and
\* allotted_time as they are, and the pacing hooks leave current_tick,
\* rollover_tick, tick_real_time and the schedule as they are.
SchedulerFrame ==
    [][/\ (RunBegin \/ RunIter \/ RunEnd)
            => UNCHANGED <<rollover_tick, tick_real_time, schedule, allotted_time>>
       /\ (too_slow \/ too_fast)
            => UNCHANGED <<current_tick, rollover_tick, tick_real_time, schedule>>]_vars

\* a hook has been called after run has moved the tick cursor
HookCalledMidRollover ==
    /\ pc = "idle"
    /\ hook_calls >= 1
    /\ current_tick > 0

\* ---------------------------------------------------------- memory claims
\* the readable and writable StandardMemory components that own all of
\* [address, address + len)
PlainStores(address, len) ==
    {id \in DOMAIN components :
        /\ components[id].kind = "standard"
        /\ components[id].readable /\ components[id].writable
        /\ components[id].assigned_range[1] <= address
        /\ address + len <= components[id].assigned_range[2]}

\* C13: a write of 1, 2, 4 or 8 bytes that lies inside a readable and writable
\* StandardMemory succeeds, and the read of the same width at the same address
\* that follows it succeeds and returns the written bytes, also when the
\* access ends on or straddles a 4096-byte chunk boundary of the store.
WriteThenReadRoundTrips ==
    [][/\ (outcome'.op = "write" /\ PlainStores(outcome'.address, outcome'.len) # {})
            => outcome'.status = "ok"
       /\ (/\ outcome.op = "write" /\ outcome'.op = "read"
           /\ outcome'.address = outcome.address /\ outcome'.len = outcome.len
           /\ PlainStores(outcome'.address, outcome'.len) # {})
            => (outcome'.status = "ok" /\ outcome'.buffer = Payload(outcome'.len))]_vars

\* C14: every read, write and preview ends after finitely many resolution
\* passes, also on machines whose mirrors redirect into each other's ranges:
\* no operation repeats a configuration of its work stack.
ResolutionTerminates == outcome.status # "hang"

\* C15: no read, write or preview pushes a Redirect whose next pass (the
\* addresses it will access) lies inside the range claimed by the component
\* that answered it: such a redirect fails the assertion instead.
SelfRedirectAsserted == outcome.self_redirects = 0

\* the components that own all of [address, address + len)
Owners(address, len) ==
    {id \in DOMAIN components :
        /\ components[id].assigned_range[1] <= address
        /\ address + len <= components[id].assigned_range[2]}

\* where a chain of at most `hops` mirrors leads the len bytes at address:
\* <<readable StandardMemory, address in it>>, or <<>> when the chain leaves
\* the claimed ranges, splits over two components or is longer (a cycle)
RECURSIVE Backing(_, _, _)
Backing(address, len, hops) ==
    IF hops = 0 \/ Owners(address, len) = {} THEN <<>>
    ELSE LET id == CHOOSE id \in Owners(address, len) : TRUE
             config == components[id]
         IN IF config.kind = "mirror"
            THEN Backing((address - config.assigned_range[1]) + config.target[1],
                         len, hops - 1)
            ELSE IF config.kind = "standard" /\ config.readable
            THEN <<id, address>>
            ELSE <<>>

\* the len bytes a store holds from address on, given the bytes written to it
StoreBytes(id, bytes, address, len) ==
    [k \in 1..len |->
        BufferByte(components[id], bytes[id],
                   address - components[id].assigned_range[1] + k - 1)]

ReadInsideMirror ==
    /\ outcome.op = "read"
    /\ \E id \in Owners(outcome.address, outcome.len) : components[id].kind = "mirror"

\* C16: a read of 1, 2, 4 or 8 bytes that lies inside the range of a mirror
\* whose redirects lead, directly or through further mirrors without a cycle,
\* into a backing store succeeds and returns the bytes the store holds at the
\* redirect target.
ReadThroughMirror ==
    (/\ ReadInsideMirror
     /\ Backing(outcome.address, outcome.len, Cardinality(DOMAIN components)) # <<>>)
        => LET target == Backing(outcome.address, outcome.len,
                                 Cardinality(DOMAIN components))
           IN /\ outcome.status = "ok"
              /\ outcome.buffer = StoreBytes(target[1], outcome.before, target[2], outcome.len)

\* RomMemory, and StandardMemory with writable = false
ReadOnly(config) ==
    config.kind = "rom" \/ (config.kind = "standard" /\ ~config.writable)

WriteInsideReadOnly ==
    /\ outcome.op = "write"
    /\ \E id \in Owners(outcome.address, outcome.len) : ReadOnly(components[id])

\* C17: a write of 1, 2, 4 or 8 bytes that lies inside the range of a
\* read-only component returns an error that marks exactly the written range
\* [a, a + w) Denied, and leaves the bytes of every component as they were.
ReadOnlyWriteDenied ==
    WriteInsideReadOnly
        => /\ outcome.status = "err"
           /\ DOMAIN outcome.errors = outcome.address..(outcome.address + outcome.len - 1)
           /\ \A a \in DOMAIN outcome.errors : outcome.errors[a] = "Denied"
           /\ contents = outcome.before

\* an 8-byte write inside the non-writable StandardMemory returned
WroteToReadOnlyStore ==
    /\ WriteInsideReadOnly
    /\ outcome.len = MAX_ACCESS_SIZE
    /\ \E id \in Owners(outcome.address, outcome.len) : components[id].kind = "standard"
    /\ outcome.status # "running"

\* C18: every component call of an operation is handed the start address of
\* the intersection of its range with the accessed range and exactly the
\* buffer bytes of that intersection (as many bytes as the intersection has,
\* starting at the buffer position of the intersection start); an 8-byte
\* access that covers two adjacent readable and writable stores succeeds.
SplitPerOwner ==
    /\ \A k \in 1..Len(outcome.calls) :
         LET call == outcome.calls[k]
         IN /\ call.address = call.overlap[1]
            /\ call.len = call.overlap[2] - call.overlap[1]
            /\ call.slice = <<call.subrange[1] + (call.overlap[1] - call.access[1]),
                              call.subrange[1] + (call.overlap[2] - call.access[1])>>
    /\ (/\ outcome.op \in {"read", "write"}
        /\ outcome.len = MAX_ACCESS_SIZE
        /\ Owners(outcome.address, outcome.len) = {}
        /\ \E id1 \in DOMAIN components, id2 \in DOMAIN components :
             /\ PlainStores(outcome.address, 1) = {id1}
             /\ PlainStores(outcome.address + outcome.len - 1, 1) = {id2}
             /\ components[id1].assigned_range[2] = components[id2].assigned_range[1])
         => outcome.status = "ok"

\* the accessed addresses that no component claims
Unclaimed(address, len) ==
    {a \in address..(address + len - 1) :
        \A id \in DOMAIN components :
            a \notin components[id].assigned_range[1]..(components[id].assigned_range[2] - 1)}

\* C19: a read, write or preview that accesses a byte no component claims
\* does not succeed: it returns an error that marks exactly the unclaimed
\* bytes OutOfBus.
UnclaimedIsOutOfBus ==
    (outcome.op # "none" /\ Unclaimed(outcome.address, outcome.len) # {})
        => /\ outcome.status = "err"
           /\ DOMAIN outcome.errors = Unclaimed(outcome.address, outcome.len)
           /\ \A a \in DOMAIN outcome.errors : outcome.errors[a] = "OutOfBus"

\* StandardMemory has no preview_memory of its own
OverridesPreview(config) == config.kind \in {"rom", "mirror", "device"}

\* C20: a preview that lies inside the range of a component without its own
\* preview_memory returns an error that marks the whole requested range
\* Impossible, and the caller's buffer is left as it was passed.
DefaultPreviewImpossible ==
    (/\ outcome.op = "preview"
     /\ \E id \in Owners(outcome.address, outcome.len) : ~OverridesPreview(components[id]))
        => /\ outcome.status = "err"
           /\ DOMAIN outcome.errors = outcome.address..(outcome.address + outcome.len - 1)
           /\ \A a \in DOMAIN outcome.errors : outcome.errors[a] = "Impossible"
           /\ outcome.buffer = [k \in 1..outcome.len |-> 0]

\* C21: a preview never enters read_memory or write_memory of a component,
\* and leaves the bytes of every component as they were before it.
PreviewHasNoSideEffects ==
    outcome.op = "preview"
        => /\ \A k \in 1..Len(outcome.calls) : \A m \in 1..Len(outcome.calls[k].methods) :
                outcome.calls[k].methods[m] \notin {"read_memory", "write_memory"}
           /\ outcome.contents = outcome.before

\* C22: a read, write or preview of 1, 2, 4 or 8 bytes in which no component
\* redirects to itself returns Ok or a typed error: it does not panic, in the
\* table (assertion, work stack, address arithmetic, buffer slice) or in a
\* component.
MemoryNeverPanics ==
    (outcome.panic # "self_redirect" /\ outcome.self_redirects = 0)
        => outcome.status # "panic"

\* the addresses for which a component call reported Denied or Impossible
Failing(call) ==
    {a \in DOMAIN call.records : call.records[a].type \in {"Denied", "Impossible"}}

\* C23: when a component call reports Denied or (to a preview) Impossible for
\* some bytes, it is the last call of the operation, no further pass over the
\* work stack is made, and the operation returns an error that marks exactly
\* the addresses that call reported as failing, each with the reported reason.
ErrorAbortsOperation ==
    \A k \in 1..Len(outcome.calls) :
        Failing(outcome.calls[k]) # {}
            => /\ k = Len(outcome.calls)
               /\ outcome.passes = outcome.calls[k].pass
               /\ outcome.status = "err"
               /\ DOMAIN outcome.errors = Failing(outcome.calls[k])
               /\ \A a \in DOMAIN outcome.errors :
                      outcome.errors[a] = outcome.calls[k].records[a].type

\* a preview returned an error with a Denied and an Impossible byte while a
\* redirect was pending, before the second owner of the access was called
PreviewAbortedWithPendingRedirect ==
    /\ outcome.op = "preview"
    /\ outcome.status = "err"
    /\ outcome.needed_accesses # <<>>
    /\ {outcome.errors[a] : a \in DOMAIN outcome.errors} = {"Denied", "Impossible"}
    /\ Owners(outcome.address, outcome.len) = {}
    /\ Len(outcome.calls) = 1

\* C24: during a read, write or preview the work stack never holds more than
\* MAX_ACCESS_SIZE items, and no push onto it finds it full.
WorkStackBounded ==
    outcome.depth <= MAX_ACCESS_SIZE /\ outcome.panic # "capacity"

\* --------------------------------------------------------- builder claims
\* C25: the build_component / default_component calls that returned so far
\* returned the ids 0, 1, .., n - 1 in call order, the component store holds
\* exactly n entries, and entry i is the component the i-th call constructed.
IdsFollowInsertionOrder ==
    /\ \A i \in 1..Len(returned) : returned[i].id = i - 1
    /\ Len(component_store) = Len(returned)
    /\ \A i \in 1..Len(returned) : component_store[i].component = returned[i].component

\* three calls returned, a default_component between two build_component calls
\* of other component types
ThreeComponentsBuilt ==
    /\ Len(returned) = 3
    /\ returned[1].component.kind = "m6502"
    /\ returned[2].component.kind = "ppu"
    /\ returned[3].component.kind = "processor"

\* the addresses a table maps
Mapped(table) == UNION {table[k].start..(table[k].end - 1) : k \in 1..Len(table)}

\* C26: no component is handed the memory translation table before build;
\* build hands it to every component of the store exactly once, and the table
\* handed is the finished one: every component had been constructed and
\* every claimed address had been inserted when the first call was made.
TwoPhaseConstruction ==
    /\ builder # "built" => tables = <<>>
    /\ builder = "built" =>
         /\ Len(component_store) = current_component_index
         /\ \A id \in 0..(Len(component_store) - 1) :
                Cardinality({k \in 1..Len(tables) : tables[k].component = id}) = 1
         /\ \A k \in 1..Len(tables) :
                /\ tables[k].component \in 0..(Len(component_store) - 1)
                /\ tables[k].table = mappings
                /\ \A id \in MemoryIds(component_store) :
                       Covered(component_store[id + 1].as_memory[1])
                           \subseteq Mapped(tables[k].table)

\* build returned a Machine of three components, with and without a Memory
\* capability
BuiltMixedMachine ==
    /\ builder = "built"
    /\ Len(tables) = 3
    /\ Cardinality(MemoryIds(component_store)) = 2

\* two components of the store claim a common address
OverlappingClaims ==
    \E i \in MemoryIds(component_store), j \in MemoryIds(component_store) :
        /\ i # j
        /\ Covered(component_store[i + 1].as_memory[1])
               \cap Covered(component_store[j + 1].as_memory[1]) # {}

\* C27: build returns no Machine for a store in which two components claim
\* overlapping address ranges.
BuildAbortsOnOverlap == OverlappingClaims => builder # "built"

\* the component of that id had been pushed to the store when the lookup was
\* made: a build_component call had returned the id, and it is not the id of
\* the component whose factory made the lookup
BuiltEarlier(lookup, calls) ==
    /\ lookup.id < Len(calls)
    /\ lookup.constructing # None => lookup.id < lookup.constructing[1]

\* C28: every get_component::<T>(id) call returns the handle of the component
\* build_component returned id for if that component was completely built
\* before the call and is of type T, and None otherwise; a call on the
\* builder panics nothing and leaves the builder and its store as they were.
GetComponentAnswers ==
    [][/\ \A k \in 1..Len(lookups') :
            lookups'[k].result =
                IF /\ BuiltEarlier(lookups'[k], returned')
                   /\ returned'[lookups'[k].id + 1].component.kind = lookups'[k].kind
                THEN Some(returned'[lookups'[k].id + 1].component)
                ELSE None
       /\ (lookups' # <<>> /\ lookups'[1].constructing = None)
            => /\ component_store' = component_store
               /\ current_component_index' = current_component_index
               /\ builder' = "open"]_vars

\* the factory of the second component looked up the first and got its handle
SiblingFound ==
    /\ lookups # <<>>
    /\ lookups[1].constructing = Some(1)
    /\ lookups[1].id = 0
    /\ lookups[1].result # None
    /\ Len(component_store) = 2

\* --- scheduler claims
\* C29: Scheduler::new computes exact integers for every set of reduced
\* rational frequencies: no division by zero, common_multiple divided by each
\* scaled numerator leaves no remainder, and for every component
\* (rollover_tick / tick_rate) activations in rollover_tick * tick_real_time
\* seconds are its configured frequency.
ExactRates ==
    /\ panic # "divide by zero"
    /\ pc = "idle" =>
         \A i \in SchedulableIds(store) :
             /\ common_multiple(store) % adjusted_numerators(store)[i] = 0
             /\ rollover_tick * tick_real_time[2] * store[i][2]
                  = ratios(store)[i] * rollover_tick * tick_real_time[1] * store[i][1]

\* the ticks from t to the next tick at which a component of tr other than
\* the first is due
NextOtherDue(tr) ==
    LET waits == {tr[k].rate - tr[k].ind : k \in 2..Len(tr)}
    IN CHOOSE w \in waits : \A v \in waits : w <= v

\* C30: at every tick the construction loop finds exactly one component due,
\* the batch ends at the earliest later tick at which another component is
\* due, and the slice hands the due component one cycle for each of its own
\* due ticks inside the batch.
BatchEndsAtNextDue ==
    (pc # "new" /\ panic # "divide by zero") =>
        \A order \in HashOrders(store) :
            \A t \in BatchTicks(ratios(store), order, common_denominator(store), 0) :
                LET tr == to_run(ratios(store), order, t)
                IN /\ batch_size(tr) = NextOtherDue(tr)
                   /\ normalized_batch_size(tr) = DivCeil(batch_size(tr), tr[1].rate)

\* C31: a store with exactly one schedulable component gets a schedule of one
\* slice, from tick 0 to rollover_tick, that lists that component, whatever
\* its frequency.
SingleComponentOneSlice ==
    (pc # "new" /\ Cardinality(SchedulableIds(store)) = 1) =>
        /\ pc # "panicked"
        /\ schedule = <<[start |-> 0, end |-> rollover_tick,
                         ids |-> <<CHOOSE i \in SchedulableIds(store) : TRUE>>]>>

\* the Redirect records of one component call, as ranges [start, end)
RedirectsOf(call) ==
    {run \in {RangeMapIter(call.records)[k] : k \in 1..Len(RangeMapIter(call.records))} :
        run.record.type = "Redirect"}

\* C32: in an operation that resolved every pass, each Redirect a component
\* reported for the bytes [r0, r1) is followed by a pass that accesses
\* exactly the addresses [Y, Y + (r1 - r0)) of its target Y.
RedirectResolvedAtTarget ==
    outcome.status = "ok" =>
        \A i \in 1..Len(outcome.calls) :
            \A run \in RedirectsOf(outcome.calls[i]) :
                \E j \in (i + 1)..Len(outcome.calls) :
                    /\ outcome.calls[j].pass > outcome.calls[i].pass
                    /\ outcome.calls[j].access
                         = <<run.record.address,
                             run.record.address + (run.end - run.start)>>

\* --- factory claims
\* the last call of a method a factory makes, None if it makes none
LastCall(calls, method) ==
    IF \A k \in 1..Len(calls) : calls[k].method # method THEN None
    ELSE Some(calls[CHOOSE k \in 1..Len(calls) :
                        /\ calls[k].method = method
                        /\ \A j \in (k + 1)..Len(calls) : calls[j].method # method])

\* the capability records of a component whose factory made the calls
Registered(config, calls) ==
    [as_schedulable |-> IF LastCall(calls, "set_schedulable") = None THEN None
                        ELSE Some(LastCall(calls, "set_schedulable")[1].timings),
     as_memory |-> IF LastCall(calls, "set_memory") = None THEN None
                   ELSE Some(LastCall(calls, "set_memory")[1].ranges),
     as_display |-> IF LastCall(calls, "set_display") = None THEN None ELSE Some(config),
     as_input |-> IF LastCall(calls, "set_input") = None THEN None
                  ELSE Some(LastCall(calls, "set_input")[1].gamepads)]

\* C33: after build the store holds a capability record of a component
\* exactly when its factory called the setter of that capability, wherever
\* set_component came among the calls, with the frequency and the ranges of
\* the last such call; no record of the store ever changes.
CapabilitiesAsRegistered ==
    [][/\ builder' = "built" =>
            \A k \in 1..Len(component_store') :
                [c \in {"as_schedulable", "as_memory", "as_display", "as_input"} |->
                    component_store'[k][c]]
                    = Registered(returned'[k].component,
                                 FactoryCalls(returned'[k].component))
       /\ \A k \in 1..Len(component_store) : component_store'[k] = component_store[k]]_vars

\* the gamepad ids one set_input_manager call carried
PadsOf(call) == {call.gamepad_ids[g] : g \in 1..Len(call.gamepad_ids)}

\* C34: no component receives the input manager before build; build hands it
\* exactly once to every component with an Input capability, with as many
\* gamepad ids as the component registered gamepads, the ids counting
\* 0, 1, 2, ... through the components in id order, none handed twice.
InputManagerHandedToEveryInput ==
    /\ builder # "built" => input_managers = <<>>
    /\ builder = "built" =>
         /\ \A id \in 0..(Len(component_store) - 1) :
                Cardinality({k \in 1..Len(input_managers) :
                                input_managers[k].component = id})
                    = IF component_store[id + 1].as_input # None THEN 1 ELSE 0
         /\ \A k \in 1..Len(input_managers) :
                /\ Len(input_managers[k].gamepad_ids)
                     = Len(component_store[input_managers[k].component + 1].as_input[1])
                /\ Cardinality(PadsOf(input_managers[k]))
                     = Len(input_managers[k].gamepad_ids)
                /\ \A j \in 1..Len(input_managers) :
                       input_managers[j].component < input_managers[k].component
                           => \A a \in PadsOf(input_managers[j]),
                                 b \in PadsOf(input_managers[k]) : a < b
         /\ UNION {PadsOf(input_managers[k]) : k \in 1..Len(input_managers)}
              = 0..(Cardinality(UNION {PadsOf(input_managers[k]) :
                                          k \in 1..Len(input_managers)}) - 1)

\* --- run claims
\* C35: whenever Scheduler::run is about to test its loop condition, and
\* between run invocations, current_tick is below rollover_tick and is either
\* the first tick of a slice of the schedule or a tick of no slice.
TickAtSliceStart ==
    pc \in {"idle", "running"} =>
        /\ 0 <= current_tick /\ current_tick < rollover_tick
        /\ \/ SliceAt(schedule, current_tick) = <<>>
           \/ SliceAt(schedule, current_tick)[1].start = current_tick

\* C36: every id a slice of the schedule lists is the id of a component of
\* the store that has a Schedulable capability, and run never panics over a
\* listed component it cannot find.
ScheduleListsSchedulables ==
    /\ \A k \in 1..Len(schedule) :
           \A j \in 1..Len(schedule[k].ids) :
               /\ schedule[k].ids[j] \in DOMAIN store
               /\ store[schedule[k].ids[j]] # NotSchedulable
    /\ panic # "Schedule referencing non existant component"

\* run has executed a slice of a machine that also has a component without
\* the capability
SliceRunBesideUnschedulable ==
    /\ pc = "running"
    /\ invoked # <<>>
    /\ \E i \in DOMAIN store : store[i] = NotSchedulable

\* C37: every iteration of the run loop moves current_tick forward by at
\* least one tick, modulo rollover_tick, and every run invocation returns.
RunAlwaysReturns ==
    /\ [][(pc = "running" /\ pc' = "running") =>
            /\ ticks_consumed' - ticks_consumed >= 1
            /\ current_tick'
                 = (current_tick + (ticks_consumed' - ticks_consumed)) % rollover_tick]_vars
    /\ (pc = "running" ~> pc = "idle")

\* a run invocation that processed a slice has returned
RunReturnedAfterSlice ==
    /\ pc = "idle"
    /\ current_tick > 0

\* --- pacing claims
\* a Duration in nanoseconds
DurNanos(d) == d.secs * NANOS_PER_SEC + d.nanos

\* C38: a too_slow call never raises allotted_time, a too_fast call never
\* lowers it, and either changes it by at most the 500 ns increment.
HooksMonotone ==
    [][/\ too_slow => /\ DurNanos(allotted_time') <= DurNanos(allotted_time)
                      /\ DurNanos(allotted_time) - DurNanos(allotted_time') <= NudgeNanos
       /\ too_fast => /\ DurNanos(allotted_time') >= DurNanos(allotted_time)
                      /\ DurNanos(allotted_time') - DurNanos(allotted_time) <= NudgeNanos]_vars

\* ---------------------------------------------------------- frame claims
\* the offsets of a store that hold a written byte before or after the
\* operation, and the ones next to them
Touched(id) ==
    LET held == DOMAIN outcome.before[id] \cup DOMAIN outcome.contents[id]
    IN held \cup {o + 1 : o \in held} \cup {o - 1 : o \in held \ {0}}

====
